---- MODULE Spec2Model ----
(***************************************************************************)
(* A model of the T-tetracube cube packing solver:                         *)
(*   - solver/exact_cover.py : Dancing Links (Algorithm X) as a generator  *)
(*   - solver/symmetry.py    : rotation canonical form and SolutionSet     *)
(*   - solver/placements.py  : the cell indexing                           *)
(* Nodes of the DLX torus are numbered in creation order: 0 is the root    *)
(* header, 1..num_columns the column headers, then the cell nodes.         *)
(***************************************************************************)
EXTENDS Integers, Sequences, FiniteSets, TLC

\* Bounds of the exact-cover instances explored.
MaxCols == 3      \* columns of an instance
MaxCells == 5     \* ones in the matrix of an instance (nodes of its rows)
MaxBatches == 3   \* for loops a consumer runs over one generator
MaxSolutions == 2 \* largest max_solutions tried
MaxShift == 1     \* largest translation of the sample piece along x and along z
MaxPieces == 3    \* pieces of a list given to order_solution_bfs
MaxCalls == 2     \* calls of CubeSolver.solve on one CubeSolver
MaxServerCols == 2  \* columns of an instance the server is run on
MaxServerCells == 4 \* ones in the matrix of an instance the server is run on
MaxRequests == 2  \* requests the server answers
MaxId == 2        \* tutorial ids asked for are -MaxId .. MaxId

VARIABLES
    num_columns,     \* solve_exact_cover's argument
    rows,            \* solve_exact_cover's argument: the rows still to be added and those added
    row_id,          \* build_dlx_matrix: position of enumerate(rows)
    dlx,             \* the DancingLinks object: links, sizes, num_rows, solution_rows
    max_solutions,   \* <<>> for None, <<n>> for n
    solution_count,  \* solve_exact_cover's nonlocal counter
    gen,             \* the generator: "none", "created", "running", "suspended", "done"
    stack,           \* the frames of _solve_recursive, outermost first
    pulled,          \* every solution the consumer has received, in order
    in_loop,         \* the consumer is inside a for loop over the generator
    batches,         \* number of for loops the consumer has started on the generator
    stops,           \* number of times next(generator) raised StopIteration
    uninterrupted,   \* what list(solve_exact_cover(...)) returns on these arguments
    pieces,          \* symmetry.py: the solution at hand, a list of pieces, each a list of points
    canonical,       \* the last value compute_canonical_form returned, <<>> for none yet
    canonical_forms, \* SolutionSet.canonical_forms
    solutions,       \* SolutionSet.solutions
    added,           \* what the last SolutionSet.add returned: <<>> for none yet, <<b>> for b
    sym_pc,          \* "caller": the caller picks a solution; "add": it has called add(pieces)
    cell_index,      \* placements.py: a cell id, -1 for none yet
    cell_point,      \* placements.py: a cell (x, y, z), <<>> for none yet
    load_pc,         \* import of geometry.py and placements.py: the statement it is at
    loop_at,         \* the indices of the for loops that statement is in, outermost first
    rotations,       \* generate_rotation_matrices: rotations
    rotation_set,    \* generate_rotation_matrices: rotation_set
    seen,            \* generate_unique_orientations: seen
    unique_orientations, \* generate_unique_orientations: unique_orientations
    placements,      \* generate_all_placements: placements
    placement_set,   \* generate_all_placements: placement_set
    cube_rotation,   \* rotate_point_in_cube: the argument rotation, <<>> for no call yet
    cube_point,      \* rotate_point_in_cube: the argument point
    cube_rotated,    \* rotate_point_in_cube: the point returned, <<>> for none yet
    tut_pieces,      \* order_solution_bfs: the argument pieces
    tut_pc,          \* order_solution_bfs: "idle", "loop" (at the while test), "returned"
    remaining,       \* order_solution_bfs: remaining
    ordered,         \* order_solution_bfs: ordered
    placed_cells,    \* order_solution_bfs: placed_cells
    ori_pieces,      \* analyze_solution_patterns: the argument pieces
    ori_at,          \* analyze_solution_patterns: pieces the for loop has done
    by_layer,        \* analyze_solution_patterns: by_layer
    ori_counts,      \* analyze_solution_patterns: orientations
    slv_pc,          \* CubeSolver.solve: "none", "created", "yielded" (suspended), "returned"
    slv_max,         \* CubeSolver.solve: max_solutions, <<>> for None, <<n>> for n
    solutions_found, \* CubeSolver.solutions_found
    solutions_unique,\* CubeSolver.solutions_unique
    slv_raw,         \* CubeSolver.solve: raw solutions the for loop has taken from dlx.solve()
    slv_yielded,     \* what the generator of the current call has yielded
    slv_calls,       \* calls of CubeSolver.solve so far
    all_placements,  \* server.py: the global, FALSE for None, TRUE for the list
    solution_set,    \* server.py: the global, 0 for None, else the SolutionSet object
    dlx_generator,   \* server.py: the global, 0 for None, else the generator object
    set_objects,     \* server.py: the solutions of every SolutionSet object created
    gen_objects,     \* server.py: for every generator created, the solutions it has yielded
    is_solving,      \* server.py: the global
    solver_lock,     \* server.py: TRUE while the lock is held
    init_pc,         \* init_solver in each thread: the line it is at, "idle", "done"
    req_pc,          \* the request the server is handling and where it is
    req_arg,         \* its argument: count of /api/generate, the id of /api/tutorial/
    req_iter,        \* generate_solutions: the generator the for loop iterates
    req_pieces,      \* generate_solutions: pieces
    new_solutions,   \* generate_solutions: new_solutions, pairs of id and pieces
    responses        \* every answer sent so far

\* the arguments of the run and what is derived from them alone
args == <<num_columns, rows, max_solutions, uninterrupted>>

dlxVars == <<args, row_id, dlx, solution_count, gen, stack, pulled, in_loop, batches, stops>>

symVars == <<pieces, canonical, canonical_forms, solutions, added, sym_pc>>

idxVars == <<cell_index, cell_point>>

geoVars == <<load_pc, loop_at, rotations, rotation_set, seen, unique_orientations,
            placements, placement_set>>

cubeVars == <<cube_rotation, cube_point, cube_rotated>>

tutVars == <<tut_pieces, tut_pc, remaining, ordered, placed_cells>>

otherVars == <<geoVars, cubeVars, tutVars>>

oriVars == <<ori_pieces, ori_at, by_layer, ori_counts>>

slvVars == <<slv_pc, slv_max, solutions_found, solutions_unique, slv_raw, slv_yielded, slv_calls>>

srvVars == <<all_placements, solution_set, dlx_generator, set_objects, gen_objects, is_solving,
            solver_lock, init_pc, req_pc, req_arg, req_iter, req_pieces, new_solutions, responses>>

hostVars == <<oriVars, slvVars, srvVars>>

vars == <<dlxVars, symVars, idxVars, otherVars, hostVars>>

-----------------------------------------------------------------------------
(* exact_cover.py: the data structure                                      *)

Header == 0

\* e, with the object d evaluated first.  TLC defers the evaluation of an operator's
\* arguments; a loop that only hands the object on to its next iteration would pile
\* the deferred updates up and evaluate them nested in one another at the end.
After(d, e) == IF d = d THEN e ELSE e

RECURSIVE InitColumns(_,_,_,_)
\* DancingLinks.__init__, the loop creating the column headers
InitColumns(d, i, prev, n) ==
    IF i = n THEN d
    ELSE LET col == i + 1
             d1 == [d EXCEPT !.name = (col :> i) @@ @,
                             !.size = (col :> 0) @@ @,
                             !.column = (col :> col) @@ @,
                             !.row_id = (col :> -1) @@ @,
                             !.up = (col :> col) @@ @,
                             !.down = (col :> col) @@ @,
                             !.left = (col :> prev) @@ @,
                             !.right = (col :> Header) @@ @]
             d2 == [d1 EXCEPT !.right[prev] = col]
             d3 == [d2 EXCEPT !.left[Header] = col]
             d4 == [d3 EXCEPT !.columns = Append(@, col), !.nodes = @ + 1]
         IN  After(d4, InitColumns(d4, i + 1, col, n))

\* DancingLinks.__init__
DancingLinks(n) ==
    InitColumns([left |-> (Header :> Header), right |-> (Header :> Header),
                 up |-> (Header :> Header), down |-> (Header :> Header),
                 column |-> (Header :> Header), row_id |-> (Header :> -1),
                 size |-> (Header :> 0), name |-> (Header :> -1),
                 columns |-> <<>>, nodes |-> 1,
                 num_rows |-> 0, solution_rows |-> <<>>],
                0, Header, n)

RECURSIVE AddRowLoop(_,_,_,_,_,_)
\* DancingLinks.add_row, the loop over column_indices
AddRowLoop(d, rid, column_indices, k, first_node, prev_node) ==
    IF k > Len(column_indices) THEN d
    ELSE LET col == d.columns[column_indices[k] + 1]
             node == d.nodes
             d1 == [d EXCEPT !.nodes = @ + 1,
                             !.row_id = (node :> rid) @@ @,
                             !.column = (node :> col) @@ @,
                             !.up = (node :> d.up[col]) @@ @,
                             !.down = (node :> col) @@ @]
             d2 == [d1 EXCEPT !.down[d1.up[col]] = node]
             d3 == [d2 EXCEPT !.up[col] = node]
             d4 == [d3 EXCEPT !.size[col] = @ + 1]
             d5 == IF first_node = -1
                   THEN [d4 EXCEPT !.left = (node :> node) @@ @,
                                   !.right = (node :> node) @@ @]
                   ELSE LET e1 == [d4 EXCEPT !.left = (node :> prev_node) @@ @,
                                             !.right = (node :> first_node) @@ @]
                            e2 == [e1 EXCEPT !.right[prev_node] = node]
                        IN  [e2 EXCEPT !.left[first_node] = node]
         IN  After(d5, AddRowLoop(d5, rid, column_indices, k + 1,
                                  IF first_node = -1 THEN node ELSE first_node, node))

\* DancingLinks.add_row
add_row(d, rid, column_indices) ==
    IF column_indices = <<>> THEN d
    ELSE [AddRowLoop(d, rid, column_indices, 1, -1, -1) EXCEPT !.num_rows = @ + 1]

RECURSIVE ChooseLoop_LastMinimum(_,_,_)
\* the loop taking a column of equal size in place of the one it holds
ChooseLoop_LastMinimum(d, col, min_col) ==
    IF col = Header THEN min_col
    ELSE IF min_col = -1 \/ d.size[col] <= d.size[min_col]
         THEN IF d.size[col] = 0 THEN col
              ELSE ChooseLoop_LastMinimum(d, d.right[col], col)
         ELSE ChooseLoop_LastMinimum(d, d.right[col], min_col)

RECURSIVE ChooseLoop(_,_,_)
\* DancingLinks.choose_column, the while loop; min_col = -1 stands for min_size = inf
ChooseLoop(d, col, min_col) ==
    IF col = Header THEN min_col
    ELSE IF min_col = -1 \/ d.size[col] < d.size[min_col]
         THEN IF d.size[col] = 0 THEN col
              ELSE ChooseLoop(d, d.right[col], col)
         ELSE ChooseLoop(d, d.right[col], min_col)

\* choose_column that reports a solution as soon as one column is left
choose_column_OffByOne(d) ==
    IF d.right[d.right[Header]] = Header THEN -1
    ELSE ChooseLoop(d, d.right[Header], -1)

\* DancingLinks.choose_column; -1 stands for None
choose_column(d) ==
    IF d.right[Header] = Header THEN -1
    ELSE ChooseLoop(d, d.right[Header], -1)

RECURSIVE CoverNodes_SizeKept(_,_,_)
\* the inner loop of cover without  node.column.size -= 1
CoverNodes_SizeKept(d, node, row) ==
    IF node = row THEN d
    ELSE LET d1 == [d EXCEPT !.up[d.down[node]] = d.up[node]]
             d2 == [d1 EXCEPT !.down[d1.up[node]] = d1.down[node]]
         IN  CoverNodes_SizeKept(d2, d2.right[node], row)

RECURSIVE CoverNodes(_,_,_)
\* cover, the inner loop: unlink the other nodes of a row from their columns
CoverNodes(d, node, row) ==
    IF node = row THEN d
    ELSE LET d1 == [d EXCEPT !.up[d.down[node]] = d.up[node]]
             d2 == [d1 EXCEPT !.down[d1.up[node]] = d1.down[node]]
             d3 == [d2 EXCEPT !.size[d2.column[node]] = @ - 1]
         IN  CoverNodes(d3, d3.right[node], row)

RECURSIVE CoverRows(_,_,_)
\* cover, the outer loop over the rows of the column, top to bottom
CoverRows(d, row, col) ==
    IF row = col THEN d
    ELSE LET d1 == CoverNodes(d, d.right[row], row)
         IN  CoverRows(d1, d1.down[row], col)

\* DancingLinks.cover
cover(d, col) ==
    LET d1 == [d EXCEPT !.left[d.right[col]] = d.left[col]]
        d2 == [d1 EXCEPT !.right[d1.left[col]] = d1.right[col]]
    IN  CoverRows(d2, d2.down[col], col)

RECURSIVE UncoverNodes(_,_,_)
\* uncover, the inner loop: relink the other nodes of a row, right to left
UncoverNodes(d, node, row) ==
    IF node = row THEN d
    ELSE LET d1 == [d EXCEPT !.size[d.column[node]] = @ + 1]
             d2 == [d1 EXCEPT !.up[d1.down[node]] = node]
             d3 == [d2 EXCEPT !.down[d2.up[node]] = node]
         IN  UncoverNodes(d3, d3.left[node], row)

RECURSIVE UncoverRows(_,_,_)
\* uncover, the outer loop over the rows of the column, bottom to top
UncoverRows(d, row, col) ==
    IF row = col THEN d
    ELSE LET d1 == UncoverNodes(d, d.left[row], row)
         IN  UncoverRows(d1, d1.up[row], col)

\* uncover that restores the rows and forgets to relink the right neighbour
uncover_HalfRelink(d, col) ==
    LET d1 == UncoverRows(d, d.up[col], col)
    IN  [d1 EXCEPT !.right[d1.left[col]] = col]

\* DancingLinks.uncover
uncover(d, col) ==
    LET d1 == UncoverRows(d, d.up[col], col)
        d2 == [d1 EXCEPT !.left[d1.right[col]] = col]
    IN  [d2 EXCEPT !.right[d2.left[col]] = col]

RECURSIVE BuildLoop(_,_,_)
\* build_dlx_matrix, the loop from position k (1-based here) of rows
BuildLoop(d, rs, k) ==
    IF k > Len(rs) THEN d
    ELSE LET d1 == add_row(d, k - 1, rs[k])
         IN  After(d1, BuildLoop(d1, rs, k + 1))

\* build_dlx_matrix
build_dlx_matrix(n, rs) == BuildLoop(DancingLinks(n), rs, 1)

-----------------------------------------------------------------------------
(* exact_cover.py: _solve_recursive as a generator.  A frame holds the     *)
(* locals col, row, node and the place the frame is at:                    *)
(*   "start"    entering the function                                      *)
(*   "yielded"  suspended at  yield solution                               *)
(*   "rows"     at the test of  while row is not col                       *)
(*   "cover"    at the test of the loop covering the row's other columns   *)
(*   "uncover"  at the test of the loop uncovering them, after the         *)
(*              recursive call has returned                                *)
(* entry is the DancingLinks object as it was when the frame was entered.  *)

Frame(d) == [pc |-> "start", col |-> -1, row |-> -1, node |-> -1, entry |-> d]

Top(st) == st[Len(st)]

SetTop(st, f) == [st EXCEPT ![Len(st)] = f]

\* a recursive call returns: the caller goes on at  node = row.left
Return(d, st) ==
    LET rest == SubSeq(st, 1, Len(st) - 1)
    IN  IF rest = <<>> THEN rest
        ELSE SetTop(rest, [Top(rest) EXCEPT !.pc = "uncover",
                                            !.node = d.left[Top(rest).row]])

\* solve_exact_cover.callback
callback(maxs, count) ==
    [count |-> count + 1,
     stop |-> maxs # <<>> /\ count + 1 >= maxs[1]]

\* which statement of _solve_recursive the innermost frame executes next
StepKind(d, st) ==
    LET f == Top(st)
    IN  CASE f.pc = "start" ->
                 (LET c == choose_column(d)
                  IN  IF c = -1 THEN "leaf"
                      ELSE IF d.size[c] = 0 THEN "dead_end" ELSE "cover_col")
          [] f.pc = "yielded" -> "return"
          [] f.pc = "rows" -> IF f.row = f.col THEN "uncover_col" ELSE "select_row"
          [] f.pc = "cover" -> IF f.node # f.row THEN "cover_node" ELSE "recurse"
          [] f.pc = "uncover" -> IF f.node # f.row THEN "uncover_node" ELSE "next_row"

Result(d, st, count, out) == [dlx |-> d, stack |-> st, count |-> count, yields |-> out]

\* col is None: report list(solution_rows) to the callback, yield it unless told to stop
StepLeaf(d, st, maxs, count) ==
    LET solution == d.solution_rows
        cb == callback(maxs, count)
    IN  IF cb.stop
        THEN Result(d, Return(d, st), cb.count, <<>>)
        ELSE Result(d, SetTop(st, [Top(st) EXCEPT !.pc = "yielded"]), cb.count, <<solution>>)

\* resumed after  yield solution : return
StepReturn(d, st, maxs, count) == Result(d, Return(d, st), count, <<>>)

\* col.size == 0: return
StepDeadEnd(d, st, maxs, count) == Result(d, Return(d, st), count, <<>>)

\* self.cover(col); row = col.down
StepCoverCol(d, st, maxs, count) ==
    LET c == choose_column(d)
        d1 == cover(d, c)
    IN  Result(d1, SetTop(st, [Top(st) EXCEPT !.pc = "rows", !.col = c, !.row = d1.down[c]]),
               count, <<>>)

\* appending the row's node instead of its row_id
StepSelectRow_WrongId(d, st, maxs, count) ==
    LET f == Top(st)
    IN  Result([d EXCEPT !.solution_rows = Append(@, f.row)],
               SetTop(st, [f EXCEPT !.pc = "cover", !.node = d.right[f.row]]),
               count, <<>>)

\* self.solution_rows.append(row.row_id); node = row.right
StepSelectRow(d, st, maxs, count) ==
    LET f == Top(st)
    IN  Result([d EXCEPT !.solution_rows = Append(@, d.row_id[f.row])],
               SetTop(st, [f EXCEPT !.pc = "cover", !.node = d.right[f.row]]),
               count, <<>>)

\* self.cover(node.column); node = node.right
StepCoverNode(d, st, maxs, count) ==
    LET f == Top(st)
        d1 == cover(d, d.column[f.node])
    IN  Result(d1, SetTop(st, [f EXCEPT !.node = d1.right[f.node]]), count, <<>>)

\* yield from self._solve_recursive(callback)
StepRecurse(d, st, maxs, count) == Result(d, Append(st, Frame(d)), count, <<>>)

\* self.uncover(node.column); node = node.left
StepUncoverNode(d, st, maxs, count) ==
    LET f == Top(st)
        d1 == uncover(d, d.column[f.node])
    IN  Result(d1, SetTop(st, [f EXCEPT !.node = d1.left[f.node]]), count, <<>>)

\* the row loop that gives up after its first row
StepNextRow_FirstRowOnly(d, st, maxs, count) ==
    LET f == Top(st)
    IN  Result([d EXCEPT !.solution_rows = SubSeq(@, 1, Len(@) - 1)],
               SetTop(st, [f EXCEPT !.pc = "rows", !.row = f.col]),
               count, <<>>)

\* self.solution_rows.pop(); row = row.down
StepNextRow(d, st, maxs, count) ==
    LET f == Top(st)
    IN  Result([d EXCEPT !.solution_rows = SubSeq(@, 1, Len(@) - 1)],
               SetTop(st, [f EXCEPT !.pc = "rows", !.row = d.down[f.row]]),
               count, <<>>)

\* returning from the row loop without uncovering the chosen column
StepUncoverCol_NoUncover(d, st, maxs, count) == Result(d, Return(d, st), count, <<>>)

\* the row loop is over: self.uncover(col) and return
StepUncoverCol(d, st, maxs, count) ==
    LET d1 == uncover(d, Top(st).col)
    IN  Result(d1, Return(d1, st), count, <<>>)

\* one statement of the running generator
Step(d, st, maxs, count) ==
    LET k == StepKind(d, st)
    IN  CASE k = "leaf" -> StepLeaf(d, st, maxs, count)
          [] k = "return" -> StepReturn(d, st, maxs, count)
          [] k = "dead_end" -> StepDeadEnd(d, st, maxs, count)
          [] k = "cover_col" -> StepCoverCol(d, st, maxs, count)
          [] k = "select_row" -> StepSelectRow(d, st, maxs, count)
          [] k = "cover_node" -> StepCoverNode(d, st, maxs, count)
          [] k = "recurse" -> StepRecurse(d, st, maxs, count)
          [] k = "uncover_node" -> StepUncoverNode(d, st, maxs, count)
          [] k = "next_row" -> StepNextRow(d, st, maxs, count)
          [] k = "uncover_col" -> StepUncoverCol(d, st, maxs, count)

\* solve_exact_cover, after its own  yield solution : the test that breaks its loop
WrapperBreaks(maxs, count) == maxs # <<>> /\ count >= maxs[1]

\* one statement of the generator as list() drives it: the run x is the matrix, the
\* frames, the counter and what was yielded so far; an exhausted run stays as it is
Advance(x, maxs) ==
    IF x.stack = <<>> THEN x
    ELSE LET r == Step(x.dlx, x.stack, maxs, x.count)
         IN  [dlx |-> r.dlx,
              stack |-> IF r.yields # <<>> /\ WrapperBreaks(maxs, r.count) THEN <<>> ELSE r.stack,
              count |-> r.count,
              out |-> x.out \o r.yields]

RECURSIVE AdvanceMany(_,_,_)
\* 2^n statements, one after the other, or fewer if the generator is exhausted before
AdvanceMany(x, maxs, n) ==
    IF n = 0 THEN Advance(x, maxs)
    ELSE LET half == AdvanceMany(x, maxs, n - 1)
         IN  IF half.stack = <<>> THEN half ELSE AdvanceMany(half, maxs, n - 1)

RECURSIVE RunLoop(_,_)
\* the generator pulled without pause until it is exhausted: everything it yields
RunLoop(x, maxs) ==
    IF x.stack = <<>> THEN x.out
    ELSE RunLoop(AdvanceMany(x, maxs, 6), maxs)

\* list(solve_exact_cover(n, rs, maxs))
solve_exact_cover(n, rs, maxs) ==
    LET d == build_dlx_matrix(n, rs)
    IN  RunLoop([dlx |-> d, stack |-> <<Frame(d)>>, count |-> 0, out |-> <<>>], maxs)

-----------------------------------------------------------------------------
(* placements.py: the cell indexing                                        *)

CUBE_SIZE == 6

NUM_CELLS == CUBE_SIZE * CUBE_SIZE * CUBE_SIZE

index_to_point_SwapXY(i) ==
    LET z == i \div (CUBE_SIZE * CUBE_SIZE)
        remainder == i % (CUBE_SIZE * CUBE_SIZE)
    IN  <<remainder \div CUBE_SIZE, remainder % CUBE_SIZE, z>>

point_to_index_NoSquare(x, y, z) == x + y * CUBE_SIZE + z * CUBE_SIZE

point_to_index(x, y, z) == x + y * CUBE_SIZE + z * CUBE_SIZE * CUBE_SIZE

index_to_point(i) ==
    LET z == i \div (CUBE_SIZE * CUBE_SIZE)
        remainder == i % (CUBE_SIZE * CUBE_SIZE)
        y == remainder \div CUBE_SIZE
        x == remainder % CUBE_SIZE
    IN  <<x, y, z>>

translate_piece(piece, dx, dy, dz) ==
    [i \in DOMAIN piece |-> <<piece[i][1] + dx, piece[i][2] + dy, piece[i][3] + dz>>]

-----------------------------------------------------------------------------
(* geometry.py: the 24 rotations; symmetry.py: canonical forms             *)

Rx == << <<1, 0, 0>>, <<0, 0, -1>>, <<0, 1, 0>> >>
Ry == << <<0, 0, 1>>, <<0, 1, 0>>, <<-1, 0, 0>> >>
Rz_NoMinus == << <<0, 1, 0>>, <<1, 0, 0>>, <<0, 0, 1>> >>
Rz == << <<0, -1, 0>>, <<1, 0, 0>>, <<0, 0, 1>> >>
Identity == << <<1, 0, 0>>, <<0, 1, 0>>, <<0, 0, 1>> >>

MatMul(A, B) == [i \in 1 .. 3 |-> [j \in 1 .. 3 |-> A[i][1] * B[1][j] + A[i][2] * B[2][j] + A[i][3] * B[3][j]]]

RECURSIVE matrix_power(_,_)
matrix_power(M, i) == IF i = 0 THEN Identity ELSE MatMul(matrix_power(M, i - 1), M)

\* the products rx @ ry @ rz in the order of the three nested loops, rx outermost:
\* iteration k has rx = Rx^(k div 16), ry = Ry^((k div 4) mod 4), rz = Rz^(k mod 4)
RotationProducts ==
    [k \in 0 .. 63 |-> MatMul(MatMul(matrix_power(Rx, k \div 16), matrix_power(Ry, (k \div 4) % 4)),
                              matrix_power(Rz, k % 4))]

\* the iterations whose product is appended: no earlier iteration produced it
RotationsKept == {k \in 0 .. 63 : \A j \in 0 .. k - 1 : RotationProducts[j] # RotationProducts[k]}

\* the list of appended products, in the order of appending
generate_rotation_matrices ==
    [n \in 1 .. Cardinality(RotationsKept) |->
        RotationProducts[CHOOSE k \in RotationsKept :
                            Cardinality({j \in RotationsKept : j < k}) = n - 1]]

ROTATION_MATRICES == generate_rotation_matrices

\* round(n / 2) as Python rounds: ties go to the even integer
RoundHalf(n) ==
    IF n % 2 = 0 THEN n \div 2
    ELSE IF ((n - 1) \div 2) % 2 = 0 THEN (n - 1) \div 2 ELSE (n + 1) \div 2

rotate_point_in_cube_Center3(point, R) ==
    LET p == <<point[1] - 3, point[2] - 3, point[3] - 3>>
        rotated == [i \in 1 .. 3 |-> R[i][1] * p[1] + R[i][2] * p[2] + R[i][3] * p[3]]
    IN  <<rotated[1] + 3, rotated[2] + 3, rotated[3] + 3>>

\* coordinates are kept doubled so that p - 2.5 is the integer 2p - 5
rotate_point_in_cube(point, R) ==
    LET p == <<2 * point[1] - 5, 2 * point[2] - 5, 2 * point[3] - 5>>
        rotated == [i \in 1 .. 3 |-> R[i][1] * p[1] + R[i][2] * p[2] + R[i][3] * p[3]]
    IN  <<RoundHalf(rotated[1] + 5), RoundHalf(rotated[2] + 5), RoundHalf(rotated[3] + 5)>>

rotate_piece_in_cube(piece, R) == [i \in DOMAIN piece |-> rotate_point_in_cube(piece[i], R)]

rotate_solution(sol, R) == [i \in DOMAIN sol |-> rotate_piece_in_cube(sol[i], R)]

\* Python's tuple comparison
PointLess(a, b) ==
    \/ a[1] < b[1]
    \/ a[1] = b[1] /\ a[2] < b[2]
    \/ a[1] = b[1] /\ a[2] = b[2] /\ a[3] < b[3]

RECURSIVE PieceLess(_,_)
\* Python's comparison of two tuples of points
PieceLess(a, b) ==
    IF a = <<>> THEN b # <<>>
    ELSE IF b = <<>> THEN FALSE
    ELSE IF PointLess(Head(a), Head(b)) THEN TRUE
    ELSE IF PointLess(Head(b), Head(a)) THEN FALSE
    ELSE PieceLess(Tail(a), Tail(b))

RECURSIVE KeyLess(_,_)
\* Python's comparison of two tuples of pieces
KeyLess(a, b) ==
    IF a = <<>> THEN b # <<>>
    ELSE IF b = <<>> THEN FALSE
    ELSE IF PieceLess(Head(a), Head(b)) THEN TRUE
    ELSE IF PieceLess(Head(b), Head(a)) THEN FALSE
    ELSE KeyLess(Tail(a), Tail(b))

RECURSIVE InsertPoint(_,_)
InsertPoint(x, s) ==
    IF s = <<>> THEN <<x>>
    ELSE IF PointLess(x, Head(s)) THEN <<x>> \o s
    ELSE <<Head(s)>> \o InsertPoint(x, Tail(s))

RECURSIVE SortedPoints(_)
\* sorted(piece)
SortedPoints(s) == IF s = <<>> THEN <<>> ELSE InsertPoint(Head(s), SortedPoints(Tail(s)))

RECURSIVE InsertPiece(_,_)
InsertPiece(x, s) ==
    IF s = <<>> THEN <<x>>
    ELSE IF PieceLess(x, Head(s)) THEN <<x>> \o s
    ELSE <<Head(s)>> \o InsertPiece(x, Tail(s))

RECURSIVE SortedPieces(_)
\* sorted(sorted_pieces)
SortedPieces(s) == IF s = <<>> THEN <<>> ELSE InsertPiece(Head(s), SortedPieces(Tail(s)))

solution_to_canonical_key(sol) ==
    SortedPieces([i \in DOMAIN sol |-> SortedPoints(sol[i])])

\* the key of the solution as given, no rotation tried
compute_canonical_form_AsGiven(sol) == solution_to_canonical_key(sol)

\* min_key after the loop over the 24 rotations: the key that no other key is below
compute_canonical_form(sol) ==
    LET keys == {solution_to_canonical_key(rotate_solution(sol, ROTATION_MATRICES[k])) :
                    k \in DOMAIN ROTATION_MATRICES}
    IN  CHOOSE min_key \in keys : \A key \in keys : ~KeyLess(key, min_key)

\* an add that appends the solution but forgets to record its canonical form
SolutionSet_add_NoRecord(forms, sols, solution_pieces) ==
    [canonical_forms |-> forms, solutions |-> Append(sols, solution_pieces), ret |-> TRUE]

\* SolutionSet.add on the set (forms, sols): the set after the call and what it returns
SolutionSet_add(forms, sols, solution_pieces) ==
    LET c == compute_canonical_form(solution_pieces)
    IN  IF c \in forms
        THEN [canonical_forms |-> forms, solutions |-> sols, ret |-> FALSE]
        ELSE [canonical_forms |-> forms \cup {c}, solutions |-> Append(sols, solution_pieces),
              ret |-> TRUE]

-----------------------------------------------------------------------------
(* geometry.py: the orientations of the T; placements.py: the placements   *)

T_PIECE_CANONICAL == << <<0, 0, 0>>, <<1, 0, 0>>, <<-1, 0, 0>>, <<0, 1, 0>> >>

\* int(round(np.linalg.det(R))) of an integer matrix
Det(R) ==
    R[1][1] * (R[2][2] * R[3][3] - R[2][3] * R[3][2])
    - R[1][2] * (R[2][1] * R[3][3] - R[2][3] * R[3][1])
    + R[1][3] * (R[2][1] * R[3][2] - R[2][2] * R[3][1])

\* rotation @ np.array(point)
MatVec(R, v) == [i \in 1 .. 3 |-> R[i][1] * v[1] + R[i][2] * v[2] + R[i][3] * v[3]]

rotate_piece(piece, rotation) == [i \in DOMAIN piece |-> MatVec(rotation, piece[i])]

\* min(p[c] for p in piece), max(p[c] for p in piece) of a piece with a cell
MinCoord(piece, c) == CHOOSE m \in {piece[i][c] : i \in DOMAIN piece} : \A i \in DOMAIN piece : m <= piece[i][c]

MaxCoord(piece, c) == CHOOSE m \in {piece[i][c] : i \in DOMAIN piece} : \A i \in DOMAIN piece : m >= piece[i][c]

normalize_piece_NoShift(piece) == piece

normalize_piece(piece) ==
    IF piece = <<>> THEN piece
    ELSE LET min_x == MinCoord(piece, 1)
             min_y == MinCoord(piece, 2)
             min_z == MinCoord(piece, 3)
         IN  [i \in DOMAIN piece |-> <<piece[i][1] - min_x, piece[i][2] - min_y, piece[i][3] - min_z>>]

piece_to_frozenset_AsList(piece) == piece

piece_to_frozenset(piece) == {piece[i] : i \in DOMAIN piece}

is_in_bounds(x, y, z) == 0 <= x /\ x < CUBE_SIZE /\ 0 <= y /\ y < CUBE_SIZE /\ 0 <= z /\ z < CUBE_SIZE

is_placement_valid(cells) == \A i \in DOMAIN cells : is_in_bounds(cells[i][1], cells[i][2], cells[i][3])

RECURSIVE InsertInt(_,_)
\* s ascending; x goes after the elements that are not greater (sorted is stable)
InsertInt(x, s) ==
    IF s = <<>> THEN <<x>>
    ELSE IF x < Head(s) THEN <<x>> \o s
    ELSE <<Head(s)>> \o InsertInt(x, Tail(s))

RECURSIVE SortedInts(_)
SortedInts(s) == IF s = <<>> THEN <<>> ELSE InsertInt(s[Len(s)], SortedInts(SubSeq(s, 1, Len(s) - 1)))

PlacementIndices_Unsorted(translated) ==
    [i \in DOMAIN translated |-> point_to_index(translated[i][1], translated[i][2], translated[i][3])]

\* tuple(sorted(point_to_index(x, y, z) for x, y, z in translated))
PlacementIndices(translated) ==
    SortedInts([i \in DOMAIN translated |-> point_to_index(translated[i][1], translated[i][2], translated[i][3])])

TranslationRange_Short(orientation) ==
    [c \in 1 .. 3 |-> CUBE_SIZE - MaxCoord(orientation, c) - 1]

\* the lengths of range(CUBE_SIZE - max_x), range(CUBE_SIZE - max_y), range(CUBE_SIZE - max_z)
TranslationRange(orientation) ==
    [c \in 1 .. 3 |-> CUBE_SIZE - MaxCoord(orientation, c)]

\* [index_to_point(idx) for idx in placement]
get_placement_coordinates(placement) == [i \in DOMAIN placement |-> index_to_point(placement[i])]

-----------------------------------------------------------------------------
(* patterns.py: the tutorial order                                         *)

get_piece_min_z(piece) == MinCoord(piece, 3)

\* the square of piece_corner_distance(piece), which is the root of the least
\* x^2 + y^2 + z^2 over the cells
CornerDistanceSquared(piece) ==
    LET sq == {piece[i][1] * piece[i][1] + piece[i][2] * piece[i][2] + piece[i][3] * piece[i][3] :
                  i \in DOMAIN piece}
    IN  CHOOSE m \in sq : \A n \in sq : m <= n

piece_min_coords(piece) == <<MinCoord(piece, 1), MinCoord(piece, 2), MinCoord(piece, 3)>>

\* True as soon as a cell has no placed cell above it, or none further along +x, or none
\* further along +y
is_piece_accessible(piece, placed) ==
    \E i \in DOMAIN piece :
        \/ \A check_z \in piece[i][3] + 1 .. CUBE_SIZE - 1 : <<piece[i][1], piece[i][2], check_z>> \notin placed
        \/ \A check_x \in piece[i][1] + 1 .. CUBE_SIZE - 1 : <<check_x, piece[i][2], piece[i][3]>> \notin placed
        \/ \A check_y \in piece[i][2] + 1 .. CUBE_SIZE - 1 : <<piece[i][1], check_y, piece[i][3]>> \notin placed

is_piece_supported(piece, placed) ==
    LET min_z == get_piece_min_z(piece)
    IN  \/ min_z = 0
        \/ \A i \in DOMAIN piece :
               piece[i][3] = min_z => <<piece[i][1], piece[i][2], piece[i][3] - 1>> \in placed

Directions == {<<1, 0, 0>>, <<-1, 0, 0>>, <<0, 1, 0>>, <<0, -1, 0>>, <<0, 0, 1>>, <<0, 0, -1>>}

\* adjacency_score: one for each cell of the piece and each direction whose neighbour is placed
AdjacencyScore(piece, placed) ==
    Cardinality({x \in (DOMAIN piece) \X Directions :
                    <<piece[x[1]][1] + x[2][1], piece[x[1]][2] + x[2][2], piece[x[1]][3] + x[2][3]>> \in placed})

Score_AdjacencyAdded(piece, placed) ==
    [int |-> get_piece_min_z(piece) * 1000 + AdjacencyScore(piece, placed) * 5
                 + piece_min_coords(piece)[1] + piece_min_coords(piece)[2],
     d2  |-> CornerDistanceSquared(piece)]

\* score is  int + 10 * sqrt(d2):  the integer terms, and the square of corner_dist
Score(piece, placed) ==
    [int |-> get_piece_min_z(piece) * 1000 - AdjacencyScore(piece, placed) * 5
                 + piece_min_coords(piece)[1] + piece_min_coords(piece)[2],
     d2  |-> CornerDistanceSquared(piece)]

\* sqrt(A) - sqrt(B) < K for naturals A, B up to 7500 and an integer K
RootDifferenceLess(A, B, K) ==
    IF K >= 87 THEN TRUE
    ELSE IF K <= -87 THEN FALSE
    ELSE IF K = 0 THEN A < B
    ELSE IF K > 0 THEN
        \/ A <= B
        \/ LET M == A - B - K * K IN M < 0 \/ M * M < 4 * K * K * B
    ELSE LET M == B - A - K * K IN M > 0 /\ M * M > 4 * K * K * A

\* the comparison turned round: the greater score sorts first
ScoreLess_Greater(a, b) == RootDifferenceLess(100 * b.d2, 100 * a.d2, a.int - b.int)

\* a < b for two scores
ScoreLess(a, b) == RootDifferenceLess(100 * a.d2, 100 * b.d2, b.int - a.int)

\* candidates.sort(key=lambda x: x[0]): the candidates in ascending order of score,
\* candidates of equal score in the order they have in s (list.sort is stable)
SortedCandidates(s) ==
    LET Before(j, i) ==
            \/ ScoreLess(s[j].score, s[i].score)
            \/ ~ScoreLess(s[i].score, s[j].score) /\ j < i
        Rank(i) == Cardinality({j \in DOMAIN s : Before(j, i)}) + 1
    IN  [k \in DOMAIN s |-> s[CHOOSE i \in DOMAIN s : Rank(i) = k]]

\* the key (get_piece_min_z(p), piece_corner_distance(p)) of a is less than that of b
FallbackLess(a, b) ==
    \/ get_piece_min_z(a) < get_piece_min_z(b)
    \/ get_piece_min_z(a) = get_piece_min_z(b) /\ CornerDistanceSquared(a) < CornerDistanceSquared(b)

\* remaining.sort(key=lambda p: (get_piece_min_z(p), piece_corner_distance(p)))
\* in ascending order of the key, pieces of equal key in the order they have in s
SortedFallback(s) ==
    LET Before(j, i) ==
            \/ FallbackLess(s[j], s[i])
            \/ ~FallbackLess(s[i], s[j]) /\ j < i
        Rank(i) == Cardinality({j \in DOMAIN s : Before(j, i)}) + 1
    IN  [k \in DOMAIN s |-> s[CHOOSE i \in DOMAIN s : Rank(i) = k]]

Candidates_NoAccessCheck(rem, placed) ==
    LET Passes(piece) == is_piece_supported(piece, placed)
        passing == SelectSeq(rem, Passes)
    IN  [i \in DOMAIN passing |-> [score |-> Score(passing[i], placed), piece |-> passing[i]]]

\* the list candidates built by the for loop over remaining
Candidates(rem, placed) ==
    LET Passes(piece) ==
            /\ is_piece_supported(piece, placed)
            /\ ~(placed # {} /\ ~is_piece_accessible(piece, placed))
        passing == SelectSeq(rem, Passes)
    IN  [i \in DOMAIN passing |-> [score |-> Score(passing[i], placed), piece |-> passing[i]]]

RemoveFirst_All(s, x) == SelectSeq(s, LAMBDA y : y # x)

\* remaining.remove(next_piece): s without its first element equal to x, which it has
RemoveFirst(s, x) ==
    LET i == CHOOSE j \in DOMAIN s : s[j] = x /\ \A k \in 1 .. j - 1 : s[k] # x
    IN  SubSeq(s, 1, i - 1) \o SubSeq(s, i + 1, Len(s))

RECURSIVE UniqueOrientationsFrom(_,_,_)
\* generate_unique_orientations, the loop over the rotations from the k-th on
UniqueOrientationsFrom(k, seen_keys, unique) ==
    IF k > Len(generate_rotation_matrices) THEN unique
    ELSE LET normalized == normalize_piece(rotate_piece(T_PIECE_CANONICAL, generate_rotation_matrices[k]))
             key == piece_to_frozenset(normalized)
         IN  IF key \in seen_keys THEN UniqueOrientationsFrom(k + 1, seen_keys, unique)
             ELSE UniqueOrientationsFrom(k + 1, seen_keys \cup {key},
                                         Append(unique, SortedPoints(normalized)))

\* T_ORIENTATIONS = generate_unique_orientations()
T_ORIENTATIONS == UniqueOrientationsFrom(1, {}, <<>>)

\* the translates of an orientation that generate_all_placements goes through, in its order
TranslatesOf(orientation) ==
    LET r == TranslationRange(orientation)
    IN  [k \in 1 .. r[1] * r[2] * r[3] |->
            translate_piece(orientation, (k - 1) \div (r[2] * r[3]),
                            ((k - 1) \div r[3]) % r[2], (k - 1) % r[3])]

\* the test for a wall in the XZ plane made before the one for a flat piece
get_piece_orientation_WallFirst(piece) ==
    LET zs == {piece[i][3] : i \in DOMAIN piece}
        ys == {piece[i][2] : i \in DOMAIN piece}
        xs == {piece[i][1] : i \in DOMAIN piece}
    IN  IF Cardinality(ys) = 1 THEN "wall_xz"
        ELSE IF Cardinality(zs) = 1 THEN "flat"
        ELSE IF Cardinality(xs) = 1 THEN "wall_yz"
        ELSE "3d"

get_piece_orientation(piece) ==
    LET zs == {piece[i][3] : i \in DOMAIN piece}
        ys == {piece[i][2] : i \in DOMAIN piece}
        xs == {piece[i][1] : i \in DOMAIN piece}
    IN  IF Cardinality(zs) = 1 THEN "flat"
        ELSE IF Cardinality(ys) = 1 THEN "wall_xz"
        ELSE IF Cardinality(xs) = 1 THEN "wall_yz"
        ELSE "3d"

\* d[key] += 1 on a defaultdict(int)
Increment(d, key) ==
    IF key \in DOMAIN d THEN [d EXCEPT ![key] = @ + 1] ELSE (key :> 1) @@ d

\* symmetry.py: placements_to_pieces; the row ids count from 0
placements_to_pieces(placement_indices, placement_list) ==
    [k \in DOMAIN placement_indices |->
        LET cell_indices == placement_list[placement_indices[k] + 1]
        IN  [i \in DOMAIN cell_indices |-> index_to_point(cell_indices[i])]]

RECURSIVE SolveLoop(_,_,_)
\* CubeSolver.solve, the for loop over dlx.solve() from its next element on, until it
\* yields or is over; raw is all that dlx.solve() yields
SolveLoop(x, raw, placement_list) ==
    IF x.taken = Len(raw) THEN [x EXCEPT !.pc = "returned"]
    ELSE LET solution_pieces == placements_to_pieces(raw[x.taken + 1], placement_list)
             r == SolutionSet_add(x.canonical_forms, x.solutions, solution_pieces)
             x1 == [x EXCEPT !.taken = @ + 1, !.found = @ + 1,
                             !.canonical_forms = r.canonical_forms, !.solutions = r.solutions]
         IN  IF r.ret
             THEN [x1 EXCEPT !.unique = @ + 1, !.pc = "yielded", !.yields = <<solution_pieces>>]
             ELSE After(x1, SolveLoop(x1, raw, placement_list))

-----------------------------------------------------------------------------
(* The state machine                                                       *)

RECURSIVE SortedSeq(_)
\* a set of column indices as an ascending list
SortedSeq(S) ==
    IF S = {} THEN <<>>
    ELSE LET m == CHOOSE x \in S : \A y \in S : x <= y
         IN  <<m>> \o SortedSeq(S \ {m})

\* the non-empty rows over n columns, each an ascending list of column indices
RowInputs(n) == {SortedSeq(S) : S \in (SUBSET (0 .. n - 1)) \ {{}}}

RECURSIVE RowLists(_,_)
\* the lists of rows over n columns with at most c ones in all
RowLists(n, c) ==
    {<<>>} \cup UNION {{<<r>> \o rest : rest \in RowLists(n, c - Len(r))} :
                          r \in {x \in RowInputs(n) : Len(x) <= c}}

\* no SolutionSet yet and no solution at hand
InitSym(sol) ==
    /\ pieces = sol
    /\ canonical = <<>>
    /\ canonical_forms = {}
    /\ solutions = <<>>
    /\ added = <<>>
    /\ sym_pc = "caller"

InitIdx(i, p) ==
    /\ cell_index = i
    /\ cell_point = p

\* nothing imported yet
InitGeo ==
    /\ load_pc = "idle"
    /\ loop_at = <<>>
    /\ rotations = <<>>
    /\ rotation_set = {}
    /\ seen = {}
    /\ unique_orientations = <<>>
    /\ placements = <<>>
    /\ placement_set = {}

InitCube(R, p) ==
    /\ cube_rotation = R
    /\ cube_point = p
    /\ cube_rotated = <<>>

InitTut(ps, pc) ==
    /\ tut_pieces = ps
    /\ tut_pc = pc
    /\ remaining = <<>>
    /\ ordered = <<>>
    /\ placed_cells = {}

InitOther == InitGeo /\ InitCube(<<>>, <<>>) /\ InitTut(<<>>, "idle")

\* analyze_solution_patterns not called
InitOri(ps) ==
    /\ ori_pieces = ps
    /\ ori_at = 0
    /\ by_layer = [z \in {} |-> 0]
    /\ ori_counts = [o \in {} |-> 0]

\* CubeSolver.__init__: solutions_found = 0, solutions_unique = 0; solve not called
InitSlv ==
    /\ slv_pc = "none"
    /\ slv_max = <<>>
    /\ solutions_found = 0
    /\ solutions_unique = 0
    /\ slv_raw = 0
    /\ slv_yielded = <<>>
    /\ slv_calls = 0

\* server.py as imported: the globals are None, no thread runs init_solver, no request
InitSrv(background) ==
    /\ all_placements = FALSE
    /\ solution_set = 0
    /\ dlx_generator = 0
    /\ set_objects = <<>>
    /\ gen_objects = <<>>
    /\ is_solving = FALSE
    /\ solver_lock = FALSE
    /\ init_pc = [t \in {"background", "request"} |-> IF t = "background" THEN background ELSE "idle"]
    /\ req_pc = "idle"
    /\ req_arg = 0
    /\ req_iter = 0
    /\ req_pieces = <<>>
    /\ new_solutions = <<>>
    /\ responses = <<>>

InitHost == InitOri(<<>>) /\ InitSlv /\ InitSrv("idle")

InitRun(n, rs, maxs) ==
    /\ num_columns = n
    /\ rows = rs
    /\ row_id = 0
    /\ dlx = DancingLinks(n)
    /\ max_solutions = maxs
    /\ solution_count = 0
    /\ gen = "none"
    /\ stack = <<>>
    /\ pulled = <<>>
    /\ in_loop = FALSE
    /\ batches = 0
    /\ stops = 0
    /\ uninterrupted = solve_exact_cover(n, rs, maxs)

InitDLX(n, rs, maxs) == InitRun(n, rs, maxs) /\ InitHost /\ InitSym(<<>>) /\ InitIdx(-1, <<>>) /\ InitOther

Init ==
    \E n \in 0 .. MaxCols :
        \E rs \in RowLists(n, MaxCells) :
            InitDLX(n, rs, <<>>)

\* build_dlx_matrix: one iteration of  for row_id, column_indices in enumerate(rows)
AddRow ==
    /\ gen = "none"
    /\ row_id < Len(rows)
    /\ dlx' = add_row(dlx, row_id, rows[row_id + 1])
    /\ row_id' = row_id + 1
    /\ UNCHANGED <<hostVars, args, solution_count, gen, stack, pulled, in_loop, batches, stops, symVars, idxVars, otherVars>>

\* dlx.solve(callback): the generator object is created, nothing runs yet
Solve ==
    /\ gen = "none"
    /\ row_id = Len(rows)
    /\ gen' = "created"
    /\ UNCHANGED <<hostVars, args, row_id, dlx, solution_count, stack, pulled, in_loop, batches, stops, symVars, idxVars, otherVars>>

\* a for loop that iterates dlx.solve() anew instead of the generator it was given
Iterate_NewGenerator ==
    /\ gen \in {"created", "suspended", "done"}
    /\ ~in_loop
    /\ batches < MaxBatches
    /\ in_loop' = TRUE
    /\ batches' = batches + 1
    /\ gen' = "created"
    /\ UNCHANGED <<hostVars, args, row_id, dlx, solution_count, stack, pulled, stops, symVars, idxVars, otherVars>>

\* the consumer starts a for loop over the generator
Iterate ==
    /\ gen \in {"created", "suspended", "done"}
    /\ ~in_loop
    /\ batches < MaxBatches
    /\ in_loop' = TRUE
    /\ batches' = batches + 1
    /\ UNCHANGED <<hostVars, args, row_id, dlx, solution_count, gen, stack, pulled, stops, symVars, idxVars, otherVars>>

\* the for loop asks for the next element: next(generator)
Pull ==
    /\ in_loop
    /\ \/ /\ gen = "created"
          /\ gen' = "running"
          /\ stack' = <<Frame(dlx)>>
          /\ UNCHANGED <<in_loop, stops>>
       \/ /\ gen = "suspended"
          /\ IF WrapperBreaks(max_solutions, solution_count)
             THEN gen' = "done" /\ stack' = <<>> /\ in_loop' = FALSE /\ stops' = stops + 1
             ELSE gen' = "running" /\ UNCHANGED <<stack, in_loop, stops>>
       \/ /\ gen = "done"
          /\ in_loop' = FALSE
          /\ stops' = stops + 1
          /\ UNCHANGED <<gen, stack>>
    /\ UNCHANGED <<hostVars, args, row_id, dlx, solution_count, pulled, batches, symVars, idxVars, otherVars>>

\* the consumer leaves the loop body with break; the generator stays suspended
Break ==
    /\ in_loop
    /\ gen = "suspended"
    /\ in_loop' = FALSE
    /\ UNCHANGED <<hostVars, args, row_id, dlx, solution_count, gen, stack, pulled, batches, stops, symVars, idxVars, otherVars>>

Apply(r) ==
    /\ dlx' = r.dlx
    /\ stack' = r.stack
    /\ solution_count' = r.count
    /\ pulled' = pulled \o r.yields
    /\ gen' = IF r.yields # <<>> THEN "suspended"
              ELSE IF r.stack = <<>> THEN "done" ELSE "running"
    /\ in_loop' = (in_loop /\ (r.yields # <<>> \/ r.stack # <<>>))
    /\ stops' = IF r.yields = <<>> /\ r.stack = <<>> THEN stops + 1 ELSE stops
    /\ UNCHANGED <<hostVars, args, row_id, batches, symVars, idxVars, otherVars>>

Running(k) == gen = "running" /\ StepKind(dlx, stack) = k

Leaf == Running("leaf") /\ Apply(StepLeaf(dlx, stack, max_solutions, solution_count))

ReturnAfterYield ==
    Running("return") /\ Apply(StepReturn(dlx, stack, max_solutions, solution_count))

DeadEnd == Running("dead_end") /\ Apply(StepDeadEnd(dlx, stack, max_solutions, solution_count))

CoverCol == Running("cover_col") /\ Apply(StepCoverCol(dlx, stack, max_solutions, solution_count))

SelectRow ==
    Running("select_row") /\ Apply(StepSelectRow(dlx, stack, max_solutions, solution_count))

CoverNode ==
    Running("cover_node") /\ Apply(StepCoverNode(dlx, stack, max_solutions, solution_count))

Recurse == Running("recurse") /\ Apply(StepRecurse(dlx, stack, max_solutions, solution_count))

UncoverNode ==
    Running("uncover_node") /\ Apply(StepUncoverNode(dlx, stack, max_solutions, solution_count))

NextRow == Running("next_row") /\ Apply(StepNextRow(dlx, stack, max_solutions, solution_count))

UncoverCol ==
    Running("uncover_col") /\ Apply(StepUncoverCol(dlx, stack, max_solutions, solution_count))

Next ==
    \/ AddRow
    \/ Solve
    \/ Iterate
    \/ Pull
    \/ Break
    \/ Leaf
    \/ ReturnAfterYield
    \/ DeadEnd
    \/ CoverCol
    \/ SelectRow
    \/ CoverNode
    \/ Recurse
    \/ UncoverNode
    \/ NextRow
    \/ UncoverCol

Spec == Init /\ [][Next]_vars

\* verify_exact_cover: the instance of Knuth's paper
KnuthColumns == 7

KnuthRows == << <<2, 4, 5>>, <<0, 3, 6>>, <<1, 2, 5>>, <<0, 3>>, <<1, 6>>, <<3, 4, 6>> >>

InitKnuth ==
    \E maxs \in {<<>>} \cup {<<m>> : m \in 1 .. MaxSolutions} :
        InitDLX(KnuthColumns, KnuthRows, maxs)

SpecKnuth == InitKnuth /\ [][Next]_vars

\* solve_exact_cover called with max_solutions=None or with a number
InitLimited ==
    \E n \in 0 .. MaxCols :
        \E rs \in RowLists(n, MaxCells) :
            \E maxs \in {<<>>} \cup {<<m>> : m \in 1 .. MaxSolutions} :
                InitDLX(n, rs, maxs)

SpecLimited == InitLimited /\ [][Next]_vars

-----------------------------------------------------------------------------
(* symmetry.py driven as verify_symmetry drives it                         *)

\* verify_symmetry's test piece
test_piece == << <<0, 0, 0>>, <<1, 0, 0>>, <<2, 0, 0>>, <<1, 1, 0>> >>

PieceInputs == {translate_piece(test_piece, dx, 0, dz) : dx \in 0 .. MaxShift, dz \in 0 .. MaxShift}

\* the solutions of one piece and of two pieces, in either order
SolutionInputs ==
    {<<p>> : p \in PieceInputs} \cup {s \in PieceInputs \X PieceInputs : s[1] # s[2]}

Rotations == {ROTATION_MATRICES[i] : i \in DOMAIN ROTATION_MATRICES}

InitCanon == \E sol \in SolutionInputs : InitRun(0, <<>>, <<>>) /\ InitHost /\ InitSym(sol) /\ InitIdx(-1, <<>>) /\ InitOther

\* canonical = compute_canonical_form(test_solution)
Canonicalise ==
    /\ canonical' = compute_canonical_form(pieces)
    /\ UNCHANGED <<hostVars, dlxVars, pieces, canonical_forms, solutions, added, sym_pc, idxVars, otherVars>>

\* rotated_solution = rotate_solution(test_solution, R)
RotateSolution ==
    \E R \in Rotations :
        /\ pieces' = rotate_solution(pieces, R)
        /\ UNCHANGED <<hostVars, dlxVars, canonical, canonical_forms, solutions, added, sym_pc, idxVars, otherVars>>

NextCanon == Canonicalise \/ RotateSolution

SpecCanon == InitCanon /\ [][NextCanon]_vars

\* the raw solutions a caller offers to the set: one piece, two pieces in either order,
\* and the first of them as verify_symmetry rotates it (rotations[5])
SetInputs ==
    LET one == <<test_piece>>
        other == translate_piece(test_piece, 0, 0, 1)
    IN  {one, <<test_piece, other>>, <<other, test_piece>>,
         rotate_solution(one, ROTATION_MATRICES[6])}

InitSet == InitRun(0, <<>>, <<>>) /\ InitHost /\ InitSym(<<>>) /\ InitIdx(-1, <<>>) /\ InitOther

\* the caller has a raw solution to offer
NewSolution ==
    \E sol \in SetInputs :
        /\ sym_pc = "caller"
        /\ pieces' = sol
        /\ sym_pc' = "add"
        /\ UNCHANGED <<hostVars, dlxVars, canonical, canonical_forms, solutions, added, idxVars, otherVars>>

\* rotated = rotate_solution(test_solution, R) for a solution the set holds
RotateAccepted ==
    \E i \in DOMAIN solutions, R \in Rotations :
        /\ sym_pc = "caller"
        /\ pieces' = rotate_solution(solutions[i], R)
        /\ sym_pc' = "add"
        /\ UNCHANGED <<hostVars, dlxVars, canonical, canonical_forms, solutions, added, idxVars, otherVars>>

\* an add that appends without looking the canonical form up
Add_NoLookup ==
    /\ sym_pc = "add"
    /\ canonical_forms' = canonical_forms \cup {compute_canonical_form(pieces)}
    /\ solutions' = Append(solutions, pieces)
    /\ added' = <<TRUE>>
    /\ sym_pc' = "caller"
    /\ UNCHANGED <<hostVars, dlxVars, pieces, canonical, idxVars, otherVars>>

\* sol_set.add(pieces)
Add ==
    /\ sym_pc = "add"
    /\ LET r == SolutionSet_add(canonical_forms, solutions, pieces)
       IN  /\ canonical_forms' = r.canonical_forms
           /\ solutions' = r.solutions
           /\ added' = <<r.ret>>
    /\ sym_pc' = "caller"
    /\ UNCHANGED <<hostVars, dlxVars, pieces, canonical, idxVars, otherVars>>

NextSet == NewSolution \/ RotateAccepted \/ Add

SpecSet == InitSet /\ [][NextSet]_vars

-----------------------------------------------------------------------------
(* placements.py: the two conversions applied to every cell                *)

Cells == (0 .. CUBE_SIZE - 1) \X (0 .. CUBE_SIZE - 1) \X (0 .. CUBE_SIZE - 1)

InitIndex ==
    /\ InitRun(0, <<>>, <<>>) /\ InitHost
    /\ InitSym(<<>>)
    /\ InitOther
    /\ \/ \E i \in 0 .. NUM_CELLS - 1 : InitIdx(i, <<>>)
       \/ \E p \in Cells : InitIdx(-1, p)

IndexToPoint ==
    /\ cell_index # -1
    /\ cell_point' = index_to_point(cell_index)
    /\ UNCHANGED <<hostVars, dlxVars, symVars, cell_index, otherVars>>

PointToIndex ==
    /\ cell_point # <<>>
    /\ cell_index' = point_to_index(cell_point[1], cell_point[2], cell_point[3])
    /\ UNCHANGED <<hostVars, dlxVars, symVars, cell_point, otherVars>>

NextIndex == IndexToPoint \/ PointToIndex

SpecIndex == InitIndex /\ [][NextIndex]_vars

-----------------------------------------------------------------------------
(* The import of geometry.py and of placements.py: the three module-level  *)
(* lists are built one loop iteration at a time.  load_pc is               *)
(*   "rotations"     in the loops of generate_rotation_matrices            *)
(*   "orientations"  in the loop of generate_unique_orientations           *)
(*   "placements"    in the loops of generate_all_placements               *)
(*   "loaded"        all three lists are built                             *)
(*   "failed"        an assert has raised                                  *)

InitLoad ==
    /\ InitRun(0, <<>>, <<>>) /\ InitHost /\ InitSym(<<>>) /\ InitIdx(-1, <<>>)
    /\ InitCube(<<>>, <<>>) /\ InitTut(<<>>, "idle")
    /\ load_pc = "rotations"
    /\ loop_at = <<0, 0, 0>>
    /\ rotations = <<>>
    /\ rotation_set = {}
    /\ seen = {}
    /\ unique_orientations = <<>>
    /\ placements = <<>>
    /\ placement_set = {}

\* the next iteration of three nested loops over range(4); <<4, 0, 0>> when there is none
NextPowers(at) ==
    IF at[3] < 3 THEN <<at[1], at[2], at[3] + 1>>
    ELSE IF at[2] < 3 THEN <<at[1], at[2] + 1, 0>>
    ELSE <<at[1] + 1, 0, 0>>

\* one iteration of  for rx .. for ry .. for rz  in generate_rotation_matrices
GenRotation ==
    /\ load_pc = "rotations"
    /\ loop_at[1] < 4
    /\ LET R == MatMul(MatMul(matrix_power(Rx, loop_at[1]), matrix_power(Ry, loop_at[2])),
                       matrix_power(Rz, loop_at[3]))
       IN  IF R \in rotation_set
           THEN /\ loop_at' = NextPowers(loop_at)
                /\ UNCHANGED <<load_pc, rotations, rotation_set>>
           ELSE IF Det(R) # 1
           THEN /\ load_pc' = "failed"
                /\ UNCHANGED <<loop_at, rotations, rotation_set>>
           ELSE /\ rotation_set' = rotation_set \cup {R}
                /\ rotations' = Append(rotations, R)
                /\ loop_at' = NextPowers(loop_at)
                /\ UNCHANGED load_pc
    /\ UNCHANGED <<hostVars, dlxVars, symVars, idxVars, seen, unique_orientations, placements, placement_set,
                   cubeVars, tutVars>>

\* assert len(rotations) == 24; return rotations; then T_ORIENTATIONS is computed
RotationsReturn ==
    /\ load_pc = "rotations"
    /\ loop_at[1] = 4
    /\ IF Len(rotations) = 24
       THEN load_pc' = "orientations" /\ loop_at' = <<1>>
       ELSE load_pc' = "failed" /\ UNCHANGED loop_at
    /\ UNCHANGED <<hostVars, dlxVars, symVars, idxVars, rotations, rotation_set, seen, unique_orientations,
                   placements, placement_set, cubeVars, tutVars>>

\* one iteration of  for R in rotations  in generate_unique_orientations, whose
\* rotations is what a call of generate_rotation_matrices of its own returned
GenOrientation ==
    /\ load_pc = "orientations"
    /\ loop_at[1] <= Len(generate_rotation_matrices)
    /\ LET R == generate_rotation_matrices[loop_at[1]]
           rotated == rotate_piece(T_PIECE_CANONICAL, R)
           normalized == normalize_piece(rotated)
           key == piece_to_frozenset(normalized)
       IN  IF key \notin seen
           THEN /\ seen' = seen \cup {key}
                /\ unique_orientations' = Append(unique_orientations, SortedPoints(normalized))
           ELSE UNCHANGED <<seen, unique_orientations>>
    /\ loop_at' = <<loop_at[1] + 1>>
    /\ UNCHANGED <<hostVars, dlxVars, symVars, idxVars, load_pc, rotations, rotation_set, placements, placement_set,
                   cubeVars, tutVars>>

RECURSIVE NextOrientation(_,_)
\* the first orientation from the o-th on whose three ranges of translations all have
\* an element, Len(orientations) + 1 when there is none
NextOrientation(orientations, o) ==
    IF o > Len(orientations) THEN o
    ELSE IF \A c \in 1 .. 3 : TranslationRange(orientations[o])[c] >= 1 THEN o
    ELSE NextOrientation(orientations, o + 1)

\* the next iteration of  for orientation .. for dx .. for dy .. for dz
NextTranslation(orientations, at) ==
    LET r == TranslationRange(orientations[at[1]])
    IN  IF at[4] + 1 < r[3] THEN <<at[1], at[2], at[3], at[4] + 1>>
        ELSE IF at[3] + 1 < r[2] THEN <<at[1], at[2], at[3] + 1, 0>>
        ELSE IF at[2] + 1 < r[1] THEN <<at[1], at[2] + 1, 0, 0>>
        ELSE <<NextOrientation(orientations, at[1] + 1), 0, 0, 0>>

\* return unique_orientations; then ALL_PLACEMENTS is computed
OrientationsReturn ==
    /\ load_pc = "orientations"
    /\ loop_at[1] > Len(generate_rotation_matrices)
    /\ load_pc' = "placements"
    /\ loop_at' = <<NextOrientation(unique_orientations, 1), 0, 0, 0>>
    /\ UNCHANGED <<hostVars, dlxVars, symVars, idxVars, rotations, rotation_set, seen, unique_orientations,
                   placements, placement_set, cubeVars, tutVars>>

\* one iteration of the innermost loop of generate_all_placements
GenPlacement ==
    /\ load_pc = "placements"
    /\ loop_at[1] <= Len(unique_orientations)
    /\ LET translated == translate_piece(unique_orientations[loop_at[1]], loop_at[2], loop_at[3], loop_at[4])
           indices == PlacementIndices(translated)
       IN  IF is_placement_valid(translated) /\ indices \notin placement_set
           THEN /\ placement_set' = placement_set \cup {indices}
                /\ placements' = Append(placements, indices)
           ELSE UNCHANGED <<placements, placement_set>>
    /\ loop_at' = NextTranslation(unique_orientations, loop_at)
    /\ UNCHANGED <<hostVars, dlxVars, symVars, idxVars, load_pc, rotations, rotation_set, seen, unique_orientations,
                   cubeVars, tutVars>>

\* return placements
PlacementsReturn ==
    /\ load_pc = "placements"
    /\ loop_at[1] > Len(unique_orientations)
    /\ load_pc' = "loaded"
    /\ loop_at' = <<>>
    /\ UNCHANGED <<hostVars, dlxVars, symVars, idxVars, rotations, rotation_set, seen, unique_orientations,
                   placements, placement_set, cubeVars, tutVars>>

NextLoad ==
    \/ GenRotation
    \/ RotationsReturn
    \/ GenOrientation
    \/ OrientationsReturn
    \/ GenPlacement
    \/ PlacementsReturn

SpecLoad == InitLoad /\ [][NextLoad]_vars

-----------------------------------------------------------------------------
(* symmetry.py: rotate_point_in_cube called on every rotation and cell     *)

InitCubeCall ==
    /\ InitRun(0, <<>>, <<>>) /\ InitHost /\ InitSym(<<>>) /\ InitIdx(-1, <<>>)
    /\ InitGeo /\ InitTut(<<>>, "idle")
    /\ \E R \in Rotations, p \in Cells : InitCube(R, p)

RotatePoint ==
    /\ cube_rotation # <<>>
    /\ cube_rotated = <<>>
    /\ cube_rotated' = rotate_point_in_cube(cube_point, cube_rotation)
    /\ UNCHANGED <<hostVars, dlxVars, symVars, idxVars, geoVars, cube_rotation, cube_point, tutVars>>

NextCube == RotatePoint

SpecCube == InitCubeCall /\ [][NextCube]_vars

-----------------------------------------------------------------------------
(* patterns.py: order_solution_bfs, one iteration of its while loop at a   *)
(* time, on lists of these pieces (any order, repeats included):           *)
(*   the T at the corner, the same T one layer up,                         *)
(*   two T's on the ground with equal scores while nothing is placed,      *)
(*   a T at z = 3, which nothing here supports,                            *)
(*   the cell (1,1,1) and four cells around it: below, above, +x and +y,   *)
(*   the cell (2,1,2), which rests on one of those four                    *)

TutorialPieces ==
    { test_piece,
      translate_piece(test_piece, 0, 0, 1),
      translate_piece(test_piece, 3, 0, 0),
      << <<0, 3, 0>>, <<0, 4, 0>>, <<0, 5, 0>>, <<1, 4, 0>> >>,
      translate_piece(test_piece, 0, 0, 3),
      << <<1, 1, 1>> >>,
      << <<1, 1, 0>>, <<1, 1, 2>>, <<2, 1, 1>>, <<1, 2, 1>> >>,
      << <<2, 1, 2>> >> }

TutorialInputs == UNION {[1 .. n -> TutorialPieces] : n \in 0 .. MaxPieces}

\* remaining, ordered and placed_cells as the function sets them up
InitOrder ==
    /\ InitRun(0, <<>>, <<>>) /\ InitHost /\ InitSym(<<>>) /\ InitIdx(-1, <<>>)
    /\ InitGeo /\ InitCube(<<>>, <<>>)
    /\ \E ps \in TutorialInputs :
        /\ tut_pieces = ps
        /\ remaining = ps
    /\ tut_pc = "loop"
    /\ ordered = <<>>
    /\ placed_cells = {}

\* ordered.append(list(next_piece)); placed_cells gets its cells
Place(next_piece, rest) ==
    /\ remaining' = rest
    /\ ordered' = Append(ordered, next_piece)
    /\ placed_cells' = placed_cells \cup {next_piece[i] : i \in DOMAIN next_piece}
    /\ UNCHANGED <<hostVars, dlxVars, symVars, idxVars, geoVars, cubeVars, tut_pieces, tut_pc>>

\* an iteration of the while loop in which candidates is not empty
PlaceCandidate ==
    /\ tut_pc = "loop"
    /\ remaining # <<>>
    /\ \E candidates \in {Candidates(remaining, placed_cells)} :
        /\ candidates # <<>>
        /\ \E next_piece \in {SortedCandidates(candidates)[1].piece} :
            Place(next_piece, RemoveFirst(remaining, next_piece))

\* an iteration of the while loop in which candidates is empty
PlaceFallback ==
    /\ tut_pc = "loop"
    /\ remaining # <<>>
    /\ Candidates(remaining, placed_cells) = <<>>
    /\ \E sorted \in {SortedFallback(remaining)} :
        Place(Head(sorted), Tail(sorted))

\* return ordered
ReturnOrdered ==
    /\ tut_pc = "loop"
    /\ remaining = <<>>
    /\ tut_pc' = "returned"
    /\ UNCHANGED <<hostVars, dlxVars, symVars, idxVars, geoVars, cubeVars, tut_pieces, remaining, ordered, placed_cells>>

NextOrder == PlaceCandidate \/ PlaceFallback \/ ReturnOrdered

\* the function runs until it returns
SpecOrder == InitOrder /\ [][NextOrder]_vars /\ WF_vars(NextOrder)

-----------------------------------------------------------------------------
(* patterns.py: analyze_solution_patterns on lists of pieces               *)

\* pieces that more than one test of get_piece_orientation holds of, and one that none does
SamplePieces ==
    << << <<2, 3, 4>> >>,
       << <<0, 1, 2>>, <<1, 1, 2>>, <<2, 1, 2>> >>,
       << <<1, 0, 2>>, <<1, 1, 2>>, <<1, 2, 2>> >>,
       << <<1, 2, 0>>, <<1, 2, 1>>, <<1, 2, 2>> >>,
       << <<1, 1, 0>>, <<1, 1, 2>>, <<2, 1, 1>>, <<1, 2, 1>> >> >>

\* the lists analysed: the orientations, all the translates of each, the sample
OrientationInputs ==
    {T_ORIENTATIONS, SamplePieces} \cup {TranslatesOf(T_ORIENTATIONS[o]) : o \in DOMAIN T_ORIENTATIONS}

InitOrient ==
    /\ InitRun(0, <<>>, <<>>) /\ InitSym(<<>>) /\ InitIdx(-1, <<>>) /\ InitOther
    /\ InitSlv /\ InitSrv("idle")
    /\ \E ps \in OrientationInputs : InitOri(ps)

\* one iteration of  for piece in pieces
CountPiece ==
    /\ ori_at < Len(ori_pieces)
    /\ LET piece == ori_pieces[ori_at + 1]
       IN  /\ by_layer' = Increment(by_layer, get_piece_min_z(piece))
           /\ ori_counts' = Increment(ori_counts, get_piece_orientation(piece))
    /\ ori_at' = ori_at + 1
    /\ UNCHANGED <<dlxVars, symVars, idxVars, otherVars, ori_pieces, slvVars, srvVars>>

NextOrient == CountPiece

SpecOrient == InitOrient /\ [][NextOrient]_vars

-----------------------------------------------------------------------------
(* solve.py: CubeSolver.solve as a generator, called on one CubeSolver.    *)
(* The placements of the solver are the rows of the instance; its          *)
(* solution_set is (canonical_forms, solutions).  dlx.solve() of the       *)
(* matrix build_matrix makes yields uninterrupted, one element a pull.     *)

InitSolver ==
    /\ \E n \in 0 .. MaxCols :
           \E rs \in RowLists(n, MaxCells) :
               InitRun(n, rs, <<>>)
    /\ InitSym(<<>>) /\ InitIdx(-1, <<>>) /\ InitOther
    /\ InitOri(<<>>) /\ InitSlv /\ InitSrv("idle")

\* solver.solve(max_solutions=...): the generator is created, nothing of it runs yet
SolverCall ==
    /\ slv_pc \in {"none", "returned"}
    /\ slv_calls < MaxCalls
    /\ \E maxs \in {<<>>} \cup {<<m>> : m \in 0 .. MaxSolutions} : slv_max' = maxs
    /\ slv_pc' = "created"
    /\ slv_yielded' = <<>>
    /\ slv_calls' = slv_calls + 1
    /\ UNCHANGED <<dlxVars, symVars, idxVars, otherVars, oriVars, solutions_found, solutions_unique,
                   slv_raw, srvVars>>

\* the generator runs on to its next yield or to its end
SolverRun(x) ==
    \E r \in {SolveLoop(x, uninterrupted, rows)} :
        /\ slv_pc' = r.pc
        /\ solutions_found' = r.found
        /\ solutions_unique' = r.unique
        /\ slv_raw' = r.taken
        /\ canonical_forms' = r.canonical_forms
        /\ solutions' = r.solutions
        /\ slv_yielded' = slv_yielded \o r.yields
        /\ UNCHANGED <<dlxVars, pieces, canonical, added, sym_pc, idxVars, otherVars, oriVars,
                       slv_max, slv_calls, srvVars>>

\* the first next(): the counters are reset, the matrix is built, the loop starts
SolverStart ==
    /\ slv_pc = "created"
    /\ SolverRun([pc |-> "running", taken |-> 0, found |-> 0, unique |-> 0, yields |-> <<>>,
                  canonical_forms |-> canonical_forms, solutions |-> solutions])

\* a next() after a yield: the test of max_solutions, then the loop goes on
SolverResume ==
    /\ slv_pc = "yielded"
    /\ IF slv_max # <<>> /\ solutions_unique >= slv_max[1]
       THEN /\ slv_pc' = "returned"
            /\ UNCHANGED <<dlxVars, symVars, idxVars, otherVars, oriVars, slv_max, solutions_found,
                           solutions_unique, slv_raw, slv_yielded, slv_calls, srvVars>>
       ELSE SolverRun([pc |-> "running", taken |-> slv_raw, found |-> solutions_found,
                       unique |-> solutions_unique, yields |-> <<>>,
                       canonical_forms |-> canonical_forms, solutions |-> solutions])

NextSolver == SolverCall \/ SolverStart \/ SolverResume

SpecSolver == InitSolver /\ [][NextSolver]_vars

-----------------------------------------------------------------------------
(* server.py: main starts init_solver on a background thread and serves    *)
(* requests one at a time (socketserver.TCPServer).  The two threads       *)
(* interleave between statements.  get_placements() is the rows of the     *)
(* instance; a SolutionSet is an element of set_objects, a dlx.solve()     *)
(* generator an element of gen_objects (how many of the solutions in       *)
(* uninterrupted it has yielded); the globals solution_set and             *)
(* dlx_generator refer to them by position, 0 for None.                    *)

InitServer ==
    /\ \E n \in 0 .. MaxServerCols :
           \E rs \in RowLists(n, MaxServerCells) :
               InitRun(n, rs, <<>>)
    /\ InitSym(<<>>) /\ InitIdx(-1, <<>>) /\ InitOther
    /\ InitOri(<<>>) /\ InitSlv /\ InitSrv("55")

serverFrame == <<dlxVars, symVars, idxVars, otherVars, oriVars, slvVars>>

\* one statement of init_solver run by thread t; next_pc is where t goes then
InitStep(t, next_pc) ==
    /\ init_pc' = [init_pc EXCEPT ![t] = next_pc]
    /\ CASE init_pc[t] = "55" ->
              /\ all_placements' = TRUE
              /\ UNCHANGED <<solution_set, dlx_generator, set_objects, gen_objects>>
         [] init_pc[t] = "56" ->
              /\ set_objects' = Append(set_objects, [canonical_forms |-> {}, solutions |-> <<>>])
              /\ solution_set' = Len(set_objects) + 1
              /\ UNCHANGED <<all_placements, dlx_generator, gen_objects>>
         [] init_pc[t] = "59" ->
              UNCHANGED <<all_placements, solution_set, dlx_generator, set_objects, gen_objects>>
         [] init_pc[t] = "60" ->
              /\ gen_objects' = Append(gen_objects, 0)
              /\ dlx_generator' = Len(gen_objects) + 1
              /\ UNCHANGED <<all_placements, solution_set, set_objects>>

InitNext(pc) ==
    CASE pc = "55" -> "56" [] pc = "56" -> "59" [] pc = "59" -> "60" [] pc = "60" -> "done"

\* the background thread of main runs a statement of init_solver
BackgroundInit ==
    /\ init_pc["background"] \in {"55", "56", "59", "60"}
    /\ InitStep("background", InitNext(init_pc["background"]))
    /\ UNCHANGED <<serverFrame, is_solving, solver_lock, req_pc, req_arg, req_iter, req_pieces,
                   new_solutions, responses>>

\* GET /api/generate?count=...: handle_generate calls generate_solutions, whose first
\* statement tests dlx_generator
RequestGenerate ==
    /\ req_pc = "idle"
    /\ Len(responses) < MaxRequests
    /\ \E count \in 1 .. MaxSolutions : req_arg' = count
    /\ IF dlx_generator = 0
       THEN /\ req_pc' = "gen_init"
            /\ init_pc' = [init_pc EXCEPT !["request"] = "55"]
       ELSE /\ req_pc' = "gen_lock"
            /\ UNCHANGED init_pc
    /\ UNCHANGED <<serverFrame, all_placements, solution_set, dlx_generator, set_objects, gen_objects,
                   is_solving, solver_lock, req_iter, req_pieces, new_solutions, responses>>

\* generate_solutions runs a statement of its own call of init_solver
RequestInit ==
    /\ req_pc = "gen_init"
    /\ \E next_pc \in {InitNext(init_pc["request"])} :
           /\ InitStep("request", IF next_pc = "done" THEN "idle" ELSE next_pc)
           /\ req_pc' = IF next_pc = "done" THEN "gen_lock" ELSE "gen_init"
    /\ UNCHANGED <<serverFrame, is_solving, solver_lock, req_arg, req_iter, req_pieces,
                   new_solutions, responses>>

\* new_solutions = [], the lock is taken, is_solving = True, found = 0, and the for
\* statement takes the generator dlx_generator refers to
RequestLock ==
    /\ req_pc = "gen_lock"
    /\ ~solver_lock
    /\ solver_lock' = TRUE
    /\ is_solving' = TRUE
    /\ new_solutions' = <<>>
    /\ req_iter' = dlx_generator
    /\ req_pc' = "gen_next"
    /\ UNCHANGED <<serverFrame, all_placements, solution_set, dlx_generator, set_objects, gen_objects,
                   init_pc, req_arg, req_pieces, responses>>

\* the for statement asks the generator for its next solution; placements_to_pieces
RequestNext ==
    /\ req_pc = "gen_next"
    /\ IF gen_objects[req_iter] = Len(uninterrupted)
       THEN /\ req_pc' = "gen_return"
            /\ UNCHANGED <<gen_objects, req_pieces>>
       ELSE /\ gen_objects' = [gen_objects EXCEPT ![req_iter] = @ + 1]
            /\ req_pieces' = placements_to_pieces(uninterrupted[gen_objects[req_iter] + 1], rows)
            /\ req_pc' = "gen_add"
    /\ UNCHANGED <<serverFrame, all_placements, solution_set, dlx_generator, set_objects,
                   is_solving, solver_lock, init_pc, req_arg, req_iter, new_solutions, responses>>

\* if solution_set.add(pieces): on the set the global refers to now
RequestAdd ==
    /\ req_pc = "gen_add"
    /\ \E r \in {SolutionSet_add(set_objects[solution_set].canonical_forms,
                                  set_objects[solution_set].solutions, req_pieces)} :
           /\ set_objects' = [set_objects EXCEPT ![solution_set] =
                                  [canonical_forms |-> r.canonical_forms, solutions |-> r.solutions]]
           /\ req_pc' = IF r.ret THEN "gen_id" ELSE "gen_next"
    /\ UNCHANGED <<serverFrame, all_placements, solution_set, dlx_generator, gen_objects,
                   is_solving, solver_lock, init_pc, req_arg, req_iter, req_pieces, new_solutions,
                   responses>>

\* "id": len(solution_set) - 1 on the set the global refers to now; append; found += 1;
\* break when found >= count
RequestId ==
    /\ req_pc = "gen_id"
    /\ new_solutions' = Append(new_solutions,
                               [id |-> Cardinality(set_objects[solution_set].canonical_forms) - 1,
                                pieces |-> req_pieces])
    /\ req_pc' = IF Len(new_solutions) + 1 >= req_arg THEN "gen_return" ELSE "gen_next"
    /\ UNCHANGED <<serverFrame, all_placements, solution_set, dlx_generator, set_objects, gen_objects,
                   is_solving, solver_lock, init_pc, req_arg, req_iter, req_pieces, responses>>

\* is_solving = False, the lock is released, generate_solutions returns and
\* handle_generate sends the response
RequestReturn ==
    /\ req_pc = "gen_return"
    /\ is_solving' = FALSE
    /\ solver_lock' = FALSE
    /\ responses' = Append(responses, [kind |-> "generated", solution_id |-> 0,
                                        solutions |-> new_solutions])
    /\ req_pc' = "idle"
    /\ UNCHANGED <<serverFrame, all_placements, solution_set, dlx_generator, set_objects, gen_objects,
                   init_pc, req_arg, req_iter, req_pieces, new_solutions>>

\* GET /api/tutorial/<id>: the test of handle_get_tutorial
TutorialCheck ==
    /\ req_pc = "idle"
    /\ Len(responses) < MaxRequests
    /\ \E solution_id \in -MaxId .. MaxId :
           IF solution_set = 0 \/ solution_id >= Len(set_objects[solution_set].solutions)
           THEN /\ responses' = Append(responses, [kind |-> "Solution not found",
                                                    solution_id |-> solution_id, solutions |-> <<>>])
                /\ UNCHANGED <<req_pc, req_arg>>
           ELSE /\ req_arg' = solution_id
                /\ req_pc' = "tut_get"
                /\ UNCHANGED responses
    /\ UNCHANGED <<serverFrame, all_placements, solution_set, dlx_generator, set_objects, gen_objects,
                   is_solving, solver_lock, init_pc, req_iter, req_pieces, new_solutions>>

\* solution_set.solutions[solution_id] as Python indexes a list: from the end for a
\* negative index, IndexError outside -len .. len-1; the tutorial is made of the solution
TutorialGet ==
    /\ req_pc = "tut_get"
    /\ \E sols \in {set_objects[solution_set].solutions} :
           responses' = Append(responses,
               IF req_arg >= 0 /\ req_arg < Len(sols)
               THEN [kind |-> "tutorial", solution_id |-> req_arg, solutions |-> <<sols[req_arg + 1]>>]
               ELSE IF req_arg < 0 /\ req_arg >= -Len(sols)
               THEN [kind |-> "tutorial", solution_id |-> req_arg,
                     solutions |-> <<sols[Len(sols) + req_arg + 1]>>]
               ELSE [kind |-> "IndexError", solution_id |-> req_arg, solutions |-> <<>>])
    /\ req_pc' = "idle"
    /\ UNCHANGED <<serverFrame, all_placements, solution_set, dlx_generator, set_objects, gen_objects,
                   is_solving, solver_lock, init_pc, req_arg, req_iter, req_pieces, new_solutions>>

NextServer ==
    \/ BackgroundInit
    \/ RequestGenerate \/ RequestInit \/ RequestLock \/ RequestNext \/ RequestAdd \/ RequestId
    \/ RequestReturn
    \/ TutorialCheck \/ TutorialGet

SpecServer == InitServer /\ [][NextServer]_vars

-----------------------------------------------------------------------------
(* Exact covers, stated without the linked structure                       *)

Range(f) == {f[i] : i \in DOMAIN f}

Columns == 0 .. num_columns - 1

\* the row ids add_row has put into the matrix (an empty row is never added)
RowIds == {i \in 0 .. Len(rows) - 1 : rows[i + 1] # <<>>}

RowCells(i) == Range(rows[i + 1])

IsExactCover(S) ==
    /\ S \subseteq RowIds
    /\ \A i, j \in S : i # j => RowCells(i) \cap RowCells(j) = {}
    /\ UNION {RowCells(i) : i \in S} = Columns

ExactCovers == {S \in SUBSET RowIds : IsExactCover(S)}

NoRepeat(sol) == \A i, j \in DOMAIN sol : i # j => sol[i] # sol[j]

RECURSIVE CellCount(_)
CellCount(sol) == IF sol = <<>> THEN 0 ELSE Len(rows[Head(sol) + 1]) + CellCount(Tail(sol))

IsPrefix(a, b) == Len(a) <= Len(b) /\ a = SubSeq(b, 1, Len(a))

\* C1: DancingLinks.solve() run to exhaustion has yielded every set of rows that
\* partitions the columns, and each such set exactly once.
C1_Complete ==
    (gen = "done" /\ max_solutions = <<>>) =>
        /\ {Range(pulled[i]) : i \in DOMAIN pulled} = ExactCovers
        /\ Len(pulled) = Cardinality(ExactCovers)
        /\ \A i \in DOMAIN pulled : NoRepeat(pulled[i])

C1_Witness ==
    /\ gen = "done"
    /\ max_solutions = <<>>
    /\ Len(pulled) >= 2
    /\ \E i \in DOMAIN pulled : Len(pulled[i]) >= 2
    /\ \E r \in RowIds : \A i \in DOMAIN pulled : r \notin Range(pulled[i])

\* C2: every solution yielded is an exact cover: its rows are pairwise disjoint and
\* their union is the whole column set, so the rows' cells add up to num_columns
\* (rows of s cells each: num_columns / s rows, 54 for the cube's 216 and 4).
C2_YieldedIsExactCover ==
    \A i \in DOMAIN pulled :
        /\ NoRepeat(pulled[i])
        /\ IsExactCover(Range(pulled[i]))
        /\ CellCount(pulled[i]) = num_columns
        /\ \A s \in 1 .. num_columns :
               (\A k \in DOMAIN pulled[i] : Len(rows[pulled[i][k] + 1]) = s)
                   => Len(pulled[i]) * s = num_columns

C2_Witness ==
    /\ gen = "suspended"
    /\ Len(pulled) >= 1
    /\ Len(pulled[Len(pulled)]) >= 2
    /\ \E i, j \in RowIds : RowCells(i) \cap RowCells(j) # {} /\ i # j

\* the columns linked in the header ring
RECURSIVE RingFrom(_,_)
RingFrom(d, c) == IF c = Header THEN {} ELSE {c} \cup RingFrom(d, d.right[c])

Visible(d) == RingFrom(d, d.right[Header])

\* C3: for every visible column c, in the matrix as built and in every state of the
\* search, cover(c) followed by uncover(c) leaves every link and every size as it was.
C3_CoverUncover ==
    \A c \in Visible(dlx) : uncover(cover(dlx, c), c) = dlx

C3_Witness ==
    /\ gen = "running"
    /\ Len(stack) >= 2
    /\ \E c \in Visible(dlx) :
           /\ dlx.size[c] >= 2
           /\ cover(dlx, c).size # dlx.size
           /\ cover(dlx, c).up # dlx.up

\* C4: when the generator is exhausted the graph is what build_dlx_matrix made and
\* solution_rows is empty; and whenever a call of _solve_recursive returns, the
\* graph and solution_rows are what they were when the call was entered.
C4_Restored ==
    /\ [](gen = "done" => dlx = build_dlx_matrix(num_columns, rows))
    /\ [][Len(stack') < Len(stack) => dlx' = Top(stack).entry]_vars

C4_Witness ==
    /\ gen = "done"
    /\ Len(pulled) >= 2
    /\ Len(pulled[1]) >= 2
    /\ dlx.nodes > num_columns + 1 + CellCount(pulled[1])

\* C5: on Knuth's instance the search without max_solutions yields exactly one
\* solution, the rows {0, 3, 4}.
C5_Knuth ==
    (gen = "done" /\ rows = KnuthRows /\ num_columns = KnuthColumns /\ max_solutions = <<>>) =>
        /\ Len(pulled) = 1
        /\ Range(pulled[1]) = {0, 3, 4}

C5_Witness ==
    /\ gen = "done"
    /\ rows = KnuthRows
    /\ num_columns = KnuthColumns
    /\ max_solutions = <<>>
    /\ pulled # <<>>

\* C6: however the pulls are split into for loops with breaks between them, what
\* has been pulled is a prefix of what one uninterrupted run yields, all of it once
\* the generator is exhausted; an exhausted generator stays exhausted and yields
\* nothing more.
C6_Resumable ==
    /\ [](IsPrefix(pulled, uninterrupted) /\ (gen = "done" => pulled = uninterrupted))
    /\ [][gen = "done" => gen' = "done" /\ pulled' = pulled]_vars

C6_Witness ==
    /\ gen = "done"
    /\ batches >= 3
    /\ stops >= 2
    /\ Len(pulled) >= 2

-----------------------------------------------------------------------------
(* Canonical forms and the solution set                                    *)

\* C7: for every solution S with cells in [0,5]^3 and every rotation R of the 24,
\* compute_canonical_form(rotate_solution(S, R)) = compute_canonical_form(S): the
\* canonical form computed for a solution is the canonical form of every solution
\* that rotations turn it into.
C7_CanonicalInvariant ==
    /\ \A i \in DOMAIN pieces : \A j \in DOMAIN pieces[i] : pieces[i][j] \in Cells
    /\ canonical # <<>> => compute_canonical_form(pieces) = canonical
    /\ pieces \in SolutionInputs =>
           \A R \in Rotations :
               compute_canonical_form(rotate_solution(pieces, R)) = compute_canonical_form(pieces)

C7_Witness ==
    /\ canonical # <<>>
    /\ Len(pieces) = 2
    /\ pieces \notin SolutionInputs
    /\ solution_to_canonical_key(pieces) # canonical
    /\ \E R \in Rotations, sol \in SolutionInputs :
           /\ R # Identity
           /\ pieces = rotate_solution(sol, R)
           /\ solution_to_canonical_key(sol) # canonical

\* a step in which SolutionSet.add runs and returns
AddReturns == sym_pc = "add" /\ sym_pc' = "caller"

\* C8: after any sequence of adds, add(rotate_solution(S, R)) for any accepted S and any
\* of the 24 rotations R returns False and leaves canonical_forms and solutions unchanged.
C8_RotationRejected ==
    [][(/\ AddReturns
        /\ \E i \in DOMAIN solutions, R \in Rotations : pieces = rotate_solution(solutions[i], R))
       => (/\ added' = <<FALSE>>
           /\ canonical_forms' = canonical_forms
           /\ solutions' = solutions)]_vars

C8_Witness ==
    /\ sym_pc = "caller"
    /\ added = <<FALSE>>
    /\ Len(solutions) = 2
    /\ pieces \notin SetInputs
    /\ \E R \in Rotations : R # Identity /\ pieces = rotate_solution(solutions[2], R)

\* C9: add returns True iff the canonical form of pieces was not in canonical_forms
\* before the call; on True it adds the form and appends pieces to solutions, on False
\* it changes nothing.  Hence len(canonical_forms) = len(solutions), the set never
\* shrinks, and solutions holds one representative per rotation class, in the order
\* of first acceptance.
C9_AddContract ==
    /\ [](/\ Cardinality(canonical_forms) = Len(solutions)
          /\ canonical_forms = {compute_canonical_form(solutions[i]) : i \in DOMAIN solutions}
          /\ \A i \in DOMAIN solutions : \A j \in DOMAIN solutions : \A R \in Rotations :
                 i # j => solution_to_canonical_key(rotate_solution(solutions[i], R))
                              # solution_to_canonical_key(solutions[j]))
    /\ [][AddReturns =>
            LET c == compute_canonical_form(pieces)
            IN  IF c \in canonical_forms
                THEN /\ added' = <<FALSE>>
                     /\ canonical_forms' = canonical_forms
                     /\ solutions' = solutions
                ELSE /\ added' = <<TRUE>>
                     /\ canonical_forms' = canonical_forms \cup {c}
                     /\ solutions' = Append(solutions, pieces)]_vars
    /\ [][IsPrefix(solutions, solutions') /\ canonical_forms \subseteq canonical_forms']_vars

C9_Witness ==
    /\ sym_pc = "caller"
    /\ added = <<FALSE>>
    /\ Len(solutions) = 2
    /\ Len(solutions[1]) = 2
    /\ pieces \in SetInputs
    /\ \A i \in DOMAIN solutions : pieces # solutions[i]

\* C10: point_to_index and index_to_point are mutually inverse over the ids 0..215 and
\* the cells of [0,5]^3, and point_to_index(x, y, z) = x + 6*y + 36*z.
C10_MutualInverse ==
    (cell_index # -1 /\ cell_point # <<>>) =>
        /\ cell_index \in 0 .. 215
        /\ cell_point \in (0 .. 5) \X (0 .. 5) \X (0 .. 5)
        /\ point_to_index(cell_point[1], cell_point[2], cell_point[3]) = cell_index
        /\ index_to_point(cell_index) = cell_point
        /\ cell_index = cell_point[1] + 6 * cell_point[2] + 36 * cell_point[3]

C10_Witness == cell_index = 157 /\ cell_point = <<1, 2, 4>>

\* C11 as stated: for cell id 157, index_to_point returns (1,4,4), and point_to_index
\* applied to (1,4,4) returns 157.
C11_Original ==
    /\ (cell_index = 157 /\ cell_point # <<>>) => cell_point = <<1, 4, 4>>
    /\ (cell_point = <<1, 4, 4>> /\ cell_index # -1) => cell_index = 157

\* C11 (amended): for cell id 157, index_to_point returns (1,2,4), and point_to_index
\* applied to that point returns 157; the point (1,4,4) has the id 169.
C11_RoundTrip ==
    /\ (cell_index = 157 /\ cell_point # <<>>) => cell_point = <<1, 2, 4>>
    /\ (cell_point = <<1, 2, 4>> /\ cell_index # -1) => cell_index = 157
    /\ (cell_point = <<1, 4, 4>> /\ cell_index # -1) => cell_index = 169

\* the id 157 and its point, which is not (1,4,4)
C11_Witness == cell_index = 157 /\ cell_point # <<>> /\ cell_point # <<1, 4, 4>>

-----------------------------------------------------------------------------
(* The rotations, the orientations and the placements                      *)

Transpose(R) == [i \in 1 .. 3 |-> [j \in 1 .. 3 |-> R[j][i]]]

CellSet(piece) == {piece[i] : i \in DOMAIN piece}

\* the cells of a placement, moved so that the least x, y and z are 0
Shape(placement) == CellSet(normalize_piece(get_placement_coordinates(placement)))

\* C12: generate_rotation_matrices returns exactly 24 pairwise distinct 3x3 matrices with
\* entries in {-1, 0, 1}, determinant +1 and R * R^T = I, closed under the matrix product;
\* no assert of it raises, and every call of it returns the same list.
C12_RotationGroup ==
    /\ load_pc # "failed"
    /\ load_pc = "orientations" =>
        /\ Len(rotations) = 24
        /\ \A a, b \in DOMAIN rotations : a # b => rotations[a] # rotations[b]
        /\ \A a \in DOMAIN rotations :
            /\ DOMAIN rotations[a] = 1 .. 3
            /\ \A i, j \in 1 .. 3 : rotations[a][i][j] \in {-1, 0, 1}
            /\ Det(rotations[a]) = 1
            /\ MatMul(rotations[a], Transpose(rotations[a])) = Identity
        /\ \A a, b \in DOMAIN rotations :
            \E c \in DOMAIN rotations : MatMul(rotations[a], rotations[b]) = rotations[c]
        /\ generate_rotation_matrices = rotations

C12_Witness == load_pc = "orientations" /\ loop_at = <<1>> /\ Len(rotations) = 24 /\ rotations[24] # Identity

\* C13: generate_unique_orientations on the canonical T returns exactly 12 orientations,
\* pairwise distinct as cell sets, each of exactly 4 distinct cells, each with
\* min x = min y = min z = 0.
C13_TwelveOrientations ==
    /\ T_PIECE_CANONICAL = << <<0, 0, 0>>, <<1, 0, 0>>, <<-1, 0, 0>>, <<0, 1, 0>> >>
    /\ load_pc \in {"placements", "loaded"} =>
        /\ Len(unique_orientations) = 12
        /\ \A a, b \in DOMAIN unique_orientations :
            a # b => CellSet(unique_orientations[a]) # CellSet(unique_orientations[b])
        /\ \A a \in DOMAIN unique_orientations :
            /\ Len(unique_orientations[a]) = 4
            /\ Cardinality(CellSet(unique_orientations[a])) = 4
            /\ \A c \in 1 .. 3 : \A m \in -2 .. 2 :
                (\A i \in 1 .. 4 : m <= unique_orientations[a][i][c])
                /\ (\E i \in 1 .. 4 : m = unique_orientations[a][i][c]) => m = 0
            /\ \A c \in 1 .. 3 : \E i \in 1 .. 4 : unique_orientations[a][i][c] = 0
            /\ \A c \in 1 .. 3 : \A i \in 1 .. 4 : unique_orientations[a][i][c] >= 0

C13_Witness ==
    /\ load_pc = "placements"
    /\ loop_at = <<1, 0, 0, 0>>
    /\ Len(unique_orientations) = 12
    /\ Cardinality(seen) = 12

\* C14 as stated: every orientation returned by generate_unique_orientations contains
\* the cell (0,0,0).
C14_Original ==
    \A a \in DOMAIN unique_orientations : <<0, 0, 0>> \in CellSet(unique_orientations[a])

\* C14 (amended): every orientation returned by generate_unique_orientations has a cell
\* with x = 0, a cell with y = 0 and a cell with z = 0; exactly 6 of the 12 contain the
\* cell (0,0,0), and each of the other 6 contains exactly two of (1,0,0), (0,1,0), (0,0,1).
C14_OriginInSix ==
    load_pc \in {"placements", "loaded"} =>
        /\ \A a \in DOMAIN unique_orientations :
            \A c \in 1 .. 3 : \E i \in DOMAIN unique_orientations[a] : unique_orientations[a][i][c] = 0
        /\ Cardinality({a \in DOMAIN unique_orientations :
                            <<0, 0, 0>> \in CellSet(unique_orientations[a])}) = 6
        /\ \A a \in DOMAIN unique_orientations :
            <<0, 0, 0>> \notin CellSet(unique_orientations[a]) =>
                Cardinality(CellSet(unique_orientations[a])
                            \cap {<<1, 0, 0>>, <<0, 1, 0>>, <<0, 0, 1>>}) = 2

C14_Witness ==
    /\ load_pc = "placements"
    /\ Len(unique_orientations) = 12
    /\ <<0, 0, 0>> \in CellSet(unique_orientations[1])
    /\ <<0, 0, 0>> \notin CellSet(unique_orientations[2])

\* a strictly ascending 4-tuple of ids of [0, 216) whose cells are inside the cube and
\* are a translate of one of the orientations
IsPlacement(p) ==
    /\ Len(p) = 4
    /\ \A i \in 1 .. 4 : p[i] \in 0 .. 215
    /\ \A i \in 1 .. 3 : p[i] < p[i + 1]
    /\ \A i \in 1 .. 4 : index_to_point(p[i]) \in Cells
    /\ \E a \in DOMAIN unique_orientations : Shape(p) = CellSet(unique_orientations[a])

\* C15: every placement of generate_all_placements() is a strictly ascending 4-tuple of
\* cell ids of [0,216) whose cells are a translate of an orientation inside the cube; no
\* 4-tuple appears twice; every cell id 0..215 occurs in some placement.
C15_Placements ==
    /\ placements # <<>> => IsPlacement(placements[Len(placements)])
    /\ load_pc = "loaded" =>
        /\ \A n \in DOMAIN placements : IsPlacement(placements[n])
        /\ Cardinality({placements[n] : n \in DOMAIN placements}) = Len(placements)
        /\ \A id \in 0 .. NUM_CELLS - 1 :
            \E n \in DOMAIN placements : \E i \in 1 .. 4 : placements[n][i] = id

C15_Witness == load_pc = "loaded" /\ placements # <<>> /\ placements[1] = <<0, 1, 2, 7>>

\* C16: generate_all_placements() produces exactly 1440 placements: each of the 12
\* orientations has 120 translations, and all 120 of them are in the list (so no
\* translation was dropped as the 4-tuple of another orientation).
C16_Count ==
    load_pc = "loaded" =>
        /\ Len(placements) = 1440
        /\ Len(unique_orientations) = 12
        /\ \A a \in DOMAIN unique_orientations :
            /\ TranslationRange(unique_orientations[a])[1] * TranslationRange(unique_orientations[a])[2]
                   * TranslationRange(unique_orientations[a])[3] = 120
            /\ Cardinality({n \in DOMAIN placements :
                                Shape(placements[n]) = CellSet(unique_orientations[a])}) = 120

C16_Witness == load_pc = "loaded" /\ Len(placements) = 1440 /\ Cardinality(placement_set) = 1440

\* C17: for every rotation R of the 24 and every point p with integer coordinates in
\* [0,5], rotate_point_in_cube(p, R) has integer coordinates in [0,5], and no other cell
\* of the cube is rotated by R to the same point (so each R permutes the 216 cells).
C17_RotationPermutesCells ==
    cube_rotated # <<>> =>
        /\ cube_rotated \in Cells
        /\ \A q \in Cells : rotate_point_in_cube(q, cube_rotation) = cube_rotated => q = cube_point

C17_Witness ==
    /\ cube_rotation = ROTATION_MATRICES[6]
    /\ cube_point = <<0, 1, 2>>
    /\ cube_rotated # <<>>
    /\ cube_rotated # cube_point

-----------------------------------------------------------------------------
(* The tutorial order                                                      *)

Count(s, x) == Cardinality({i \in DOMAIN s : s[i] = x})

CellsOf(s) == UNION {CellSet(s[i]) : i \in DOMAIN s}

Least(S) == CHOOSE m \in S : \A n \in S : m <= n

\* its min z is 0, or every one of its cells at min z has the cell below it placed
GravitySupported(piece, placed) ==
    LET low == Least({c[3] : c \in CellSet(piece)})
    IN  \/ low = 0
        \/ \A c \in CellSet(piece) : c[3] = low => <<c[1], c[2], c[3] - 1>> \in placed

\* nothing is placed, or from some cell a straight path along +x, +y or +z meets no
\* placed cell inside the cube
Accessible(piece, placed) ==
    \/ placed = {}
    \/ \E c \in CellSet(piece) : \E d \in {<<1, 0, 0>>, <<0, 1, 0>>, <<0, 0, 1>>} :
           \A k \in 1 .. CUBE_SIZE :
               <<c[1] + k * d[1], c[2] + k * d[2], c[3] + k * d[3]>> \in Cells
                   => <<c[1] + k * d[1], c[2] + k * d[2], c[3] + k * d[3]>> \notin placed

Admissible(piece, placed) == GravitySupported(piece, placed) /\ Accessible(piece, placed)

\* the least x^2 + y^2 + z^2 of a cell: the square of d_corner
CornerSquare(piece) == Least({c[1] * c[1] + c[2] * c[2] + c[3] * c[3] : c \in CellSet(piece)})

\* the pairs of a cell of the piece and a placed cell that share a face
FaceAdjacencies(piece, placed) ==
    {x \in CellSet(piece) \X placed :
        \E c \in 1 .. 3 :
            /\ x[1][c] - x[2][c] \in {1, -1}
            /\ \A e \in (1 .. 3) \ {c} : x[1][e] = x[2][e]}

\* 1000*min_z - 5*A + (min_x + min_y), and d_corner squared: the score is the first plus
\* ten times the root of the second
ScoreOf(piece, placed) ==
    [int |-> 1000 * Least({c[3] : c \in CellSet(piece)})
                 - 5 * Cardinality(FaceAdjacencies(piece, placed))
                 + Least({c[1] : c \in CellSet(piece)}) + Least({c[2] : c \in CellSet(piece)}),
     d2  |-> CornerSquare(piece)]

\* the pieces of the input that are not among the first k - 1 of ordered
LeftAt(k) ==
    {x \in Range(tut_pieces) : Count(SubSeq(ordered, 1, k - 1), x) < Count(tut_pieces, x)}

\* C18: order_solution_bfs terminates; what it returns is a permutation of its input
\* (every piece as often as in the input, so equal length and equal union of cells);
\* each iteration of the loop removes exactly one piece from remaining, the one it
\* appends to ordered.
C18_Permutation ==
    /\ [](\A x \in Range(tut_pieces) \cup Range(remaining) \cup Range(ordered) :
              Count(remaining, x) + Count(ordered, x) = Count(tut_pieces, x))
    /\ [](tut_pc = "returned" =>
              /\ Len(ordered) = Len(tut_pieces)
              /\ \A x \in Range(tut_pieces) \cup Range(ordered) : Count(ordered, x) = Count(tut_pieces, x)
              /\ CellsOf(ordered) = CellsOf(tut_pieces))
    /\ [][(tut_pc = "loop" /\ remaining # <<>>) =>
              /\ Len(remaining') = Len(remaining) - 1
              /\ Len(ordered') = Len(ordered) + 1
              /\ SubSeq(ordered', 1, Len(ordered)) = ordered
              /\ \A x \in Range(remaining) :
                     Count(remaining', x) =
                         Count(remaining, x) - (IF x = ordered'[Len(ordered')] THEN 1 ELSE 0)]_vars
    /\ (tut_pc = "loop") ~> (tut_pc = "returned")

C18_Witness ==
    /\ tut_pc = "returned"
    /\ Len(tut_pieces) = 3
    /\ tut_pieces[1] = tut_pieces[3]
    /\ tut_pieces[1] # tut_pieces[2]
    /\ ordered # tut_pieces

\* C19: at every step of the sequence order_solution_bfs builds, the chosen piece is
\* gravity-supported and accessible with respect to the cells of the pieces chosen
\* before it, except at a step where no piece that is left is both; there the piece
\* chosen is one of least min z and, among those, of least distance to the corner.
C19_Admissible ==
    \A k \in DOMAIN ordered :
        LET placed == CellsOf(SubSeq(ordered, 1, k - 1))
        IN  \/ Admissible(ordered[k], placed)
            \/ /\ \A x \in LeftAt(k) : ~Admissible(x, placed)
               /\ ordered[k] \in LeftAt(k)
               /\ \A x \in LeftAt(k) :
                      \/ Least({c[3] : c \in CellSet(ordered[k])}) < Least({c[3] : c \in CellSet(x)})
                      \/ /\ Least({c[3] : c \in CellSet(ordered[k])}) = Least({c[3] : c \in CellSet(x)})
                         /\ CornerSquare(ordered[k]) <= CornerSquare(x)

\* a piece that had its support but was closed in came last, after a piece with a greater score
C19_Witness ==
    /\ tut_pc = "returned"
    /\ Len(ordered) = 3
    /\ ordered[2] = << <<2, 1, 2>> >>
    /\ ordered[3] = << <<1, 1, 1>> >>
    /\ tut_pieces[3] = << <<2, 1, 2>> >>
    /\ GravitySupported(ordered[3], CellsOf(SubSeq(ordered, 1, 1)))
    /\ ~Accessible(ordered[3], CellsOf(SubSeq(ordered, 1, 1)))

\* C20: at each step with an admissible piece, the chosen piece is the earliest one in
\* remaining among the admissible pieces of minimal score
\* 1000*min_z + 10*d_corner - 5*A + (min_x + min_y).
C20_MinimalScore ==
    [][(tut_pc = "loop" /\ \E i \in DOMAIN remaining : Admissible(remaining[i], placed_cells)) =>
          LET adm == {i \in DOMAIN remaining : Admissible(remaining[i], placed_cells)}
              minimal == {i \in adm : \A j \in adm :
                             ~ScoreLess(ScoreOf(remaining[j], placed_cells), ScoreOf(remaining[i], placed_cells))}
          IN  ordered' = Append(ordered, remaining[Least(minimal)])]_vars

\* the piece next to the placed T went before the other one of equal score without the
\* adjacency, which was earlier in the list
C20_Witness ==
    /\ tut_pc = "returned"
    /\ tut_pieces = << << <<0, 3, 0>>, <<0, 4, 0>>, <<0, 5, 0>>, <<1, 4, 0>> >>,
                       translate_piece(test_piece, 3, 0, 0),
                       test_piece >>
    /\ ordered = << test_piece,
                    translate_piece(test_piece, 3, 0, 0),
                    << <<0, 3, 0>>, <<0, 4, 0>>, <<0, 5, 0>>, <<1, 4, 0>> >> >>

\* what the callback was called with so far is not recorded by the program; it counts
\* its calls in solution_count
CallbackSaidStop == max_solutions # <<>> /\ solution_count >= max_solutions[1]

\* C21: once the callback given to DancingLinks.solve has returned True for a solution,
\* the search stops: the callback is not called for a further solution and the generator
\* yields no further solution.
C21_StopsAtTrue ==
    [][CallbackSaidStop => (solution_count' = solution_count /\ pulled' = pulled)]_vars

\* the total number T of exact covers and what a call is to yield of them
Unrestricted == solve_exact_cover(num_columns, rows, <<>>)

FirstUpToN ==
    IF max_solutions = <<>> \/ max_solutions[1] >= Len(Unrestricted) THEN Unrestricted
    ELSE SubSeq(Unrestricted, 1, max_solutions[1])

\* C22: solve_exact_cover(num_columns, rows, max_solutions=N), N >= 1, yields the first
\* min(N, T) solutions of the sequence it yields with max_solutions=None, which has all
\* T exact covers; so an exhausted generator has yielded exactly these.
C22_YieldsUpToN ==
    /\ IsPrefix(pulled, FirstUpToN)
    /\ gen = "done" => pulled = FirstUpToN

RECURSIVE HeaderRing(_,_)
\* the column headers met walking right from c until the root header
HeaderRing(d, c) == IF c = Header THEN <<>> ELSE <<c>> \o HeaderRing(d, d.right[c])

\* C25: choose_column returns None exactly when no column header is linked in the header
\* ring; otherwise it returns a linked column of least size, the first of that size met
\* walking right from the header.  A call of _solve_recursive that gets a column of
\* size 0 returns: nothing is yielded, no column is covered, solution_rows is unchanged.
C25_ChooseColumn ==
    /\ [](LET ring == HeaderRing(dlx, dlx.right[Header])
              c == choose_column(dlx)
          IN  IF ring = <<>> THEN c = -1
              ELSE \E k \in DOMAIN ring :
                       /\ c = ring[k]
                       /\ \A j \in DOMAIN ring : dlx.size[ring[j]] >= dlx.size[c]
                       /\ \A j \in 1 .. k - 1 : dlx.size[ring[j]] > dlx.size[c])
    /\ [][(gen = "running" /\ Top(stack).pc = "start" /\ choose_column(dlx) # -1
              /\ dlx.size[choose_column(dlx)] = 0) =>
              /\ dlx' = dlx
              /\ pulled' = pulled
              /\ Len(stack') = Len(stack) - 1]_vars

\* a call finds three linked columns, the first with a row, the other two without: it
\* is given the second and returns at once
C25_Witness ==
    /\ gen = "running"
    /\ Top(stack).pc = "start"
    /\ LET ring == HeaderRing(dlx, dlx.right[Header])
       IN  /\ Len(ring) = 3
           /\ choose_column(dlx) = ring[2]
           /\ dlx.size[ring[1]] >= 1
           /\ dlx.size[ring[2]] = 0
           /\ dlx.size[ring[3]] = 0

RECURSIVE DownCount(_,_,_)
\* the number of nodes met walking down from node until the column header col
DownCount(d, col, node) == IF node = col THEN 0 ELSE 1 + DownCount(d, col, d.down[node])

\* C26: while the rows are added and at every point of the search between two calls of
\* cover or uncover, the size of every column header, linked in the header ring or not,
\* is the number of nodes met walking col.down from the header back to it, and is not
\* negative.
C26_SizeIsCount ==
    \A k \in DOMAIN dlx.columns :
        LET col == dlx.columns[k]
        IN  /\ dlx.size[col] = DownCount(dlx, col, dlx.down[col])
            /\ dlx.size[col] >= 0

\* deep in the search a linked column has lost a node and kept another
C26_Witness ==
    /\ gen = "running"
    /\ Len(stack) >= 2
    /\ \E col \in Visible(dlx) :
           /\ dlx.size[col] >= 1
           /\ dlx.size[col] < build_dlx_matrix(num_columns, rows).size[col]

\* no two pieces of the list share a cell
PairwiseDisjoint(ps) ==
    \A i, j \in DOMAIN ps : i # j => CellSet(ps[i]) \cap CellSet(ps[j]) = {}

\* C29: for a list of pairwise disjoint pieces inside the cube of which one contains the
\* cell (0,0,0), the first piece of what order_solution_bfs builds is that piece.
C29_CornerFirst ==
    (/\ PairwiseDisjoint(tut_pieces)
     /\ \A i \in DOMAIN tut_pieces : \A c \in CellSet(tut_pieces[i]) : c \in Cells
     /\ \E i \in DOMAIN tut_pieces : <<0, 0, 0>> \in CellSet(tut_pieces[i])
     /\ ordered # <<>>)
        => <<0, 0, 0>> \in CellSet(ordered[1])

\* the piece at the corner was the last of three in the list and is the first returned
C29_Witness ==
    /\ tut_pc = "returned"
    /\ Len(tut_pieces) = 3
    /\ PairwiseDisjoint(tut_pieces)
    /\ <<0, 0, 0>> \in CellSet(tut_pieces[3])
    /\ ordered[1] = tut_pieces[3]
    /\ get_piece_min_z(tut_pieces[1]) = 0

\* the class the claim gives a piece: the first of the three tests that holds of it
ClassOf(piece) ==
    IF \A a, b \in CellSet(piece) : a[3] = b[3] THEN "flat"
    ELSE IF \A a, b \in CellSet(piece) : a[2] = b[2] THEN "wall_xz"
    ELSE IF \A a, b \in CellSet(piece) : a[1] = b[1] THEN "wall_yz"
    ELSE "3d"

\* a translate of one of the 12 orientations inside the cube
IsTPiece(piece) ==
    /\ CellSet(piece) \subseteq Cells
    /\ \E o \in DOMAIN T_ORIENTATIONS : CellSet(normalize_piece(piece)) = CellSet(T_ORIENTATIONS[o])

\* how many of the pieces counted so far the claim puts in a class
Tally(class) == Cardinality({k \in 1 .. ori_at : ClassOf(ori_pieces[k]) = class})

\* C30: get_piece_orientation gives flat when all z are equal, else wall_xz when all y
\* are equal, else wall_yz when all x are equal, else 3d; a translate of a T orientation
\* is never 3d; of the 12 orientations 4 are flat, 4 wall_xz and 4 wall_yz.
C30_Orientation ==
    /\ \A class \in {"flat", "wall_xz", "wall_yz", "3d"} :
           IF class \in DOMAIN ori_counts THEN ori_counts[class] = Tally(class) /\ Tally(class) >= 1
           ELSE Tally(class) = 0
    /\ DOMAIN ori_counts \subseteq {"flat", "wall_xz", "wall_yz", "3d"}
    /\ (\A k \in 1 .. ori_at : IsTPiece(ori_pieces[k])) => "3d" \notin DOMAIN ori_counts
    /\ (ori_pieces = T_ORIENTATIONS /\ ori_at = Len(ori_pieces)) =>
           ori_counts = [class \in {"flat", "wall_xz", "wall_yz"} |-> 4]
    /\ Len(T_ORIENTATIONS) = 12

\* the 12 orientations have been counted
C30_Witness ==
    /\ ori_pieces = T_ORIENTATIONS
    /\ ori_at = 12
    /\ ori_counts["flat"] = 4
    /\ get_piece_orientation(ori_pieces[1]) = "flat"
    /\ get_piece_orientation(ori_pieces[12]) # "flat"

\* C23: CubeSolver.solve(max_solutions=N) yields at most N solutions for every N >= 0,
\* N = 0 included; once N are yielded it takes no further raw solution from the search;
\* no two solutions it yields have the same canonical form.
C23_AtMostN ==
    /\ [](slv_max # <<>> => Len(slv_yielded) <= slv_max[1])
    /\ [](\A i, j \in DOMAIN slv_yielded :
              i # j => compute_canonical_form(slv_yielded[i]) # compute_canonical_form(slv_yielded[j]))
    /\ [][(slv_pc = "yielded" /\ slv_max # <<>> /\ Len(slv_yielded) >= slv_max[1]) =>
              slv_raw' = slv_raw]_vars

\* C27: over the calls of solve on one CubeSolver, each run to its end, whenever solve
\* is suspended at a yield or has returned, solutions_unique is len(solution_set) and
\* is the number of solutions the current call has yielded, and is at most
\* solutions_found.
C27_Counters ==
    slv_pc \in {"yielded", "returned"} =>
        /\ solutions_unique = Cardinality(canonical_forms)
        /\ solutions_unique = Len(slv_yielded)
        /\ solutions_unique <= solutions_found

\* C24: a tutorial request with an id outside 0 .. len(solution_set.solutions) - 1, a
\* negative id included, or with any id when there is no solution, is answered
\* "Solution not found": it does not raise and it is not answered with the tutorial of a
\* solution.
C24_BadIdNotFound ==
    [][\A solution_id \in -MaxId .. MaxId :
          (/\ req_pc \in {"idle", "tut_get"}
           /\ Len(responses') = Len(responses) + 1
           /\ responses'[Len(responses')].kind # "generated"
           /\ responses'[Len(responses')].solution_id = solution_id
           /\ \/ solution_set = 0
              \/ solution_id \notin 0 .. Len(set_objects[solution_set].solutions) - 1)
          => responses'[Len(responses')].kind = "Solution not found"]_vars

\* C28: under every interleaving of the background init_solver with the requests, an id
\* generate_solutions returns is the index of that solution in solution_set.solutions
\* when the response is returned, and no id is returned in two responses.
C28_IdsAreIndices ==
    /\ [][(req_pc = "gen_return" /\ req_pc' = "idle") =>
              \A k \in DOMAIN new_solutions :
                  /\ solution_set # 0
                  /\ new_solutions[k].id \in 0 .. Len(set_objects[solution_set].solutions) - 1
                  /\ set_objects[solution_set].solutions[new_solutions[k].id + 1]
                         = new_solutions[k].pieces]_vars
    /\ [](\A i, j \in DOMAIN responses :
              (i # j /\ responses[i].kind = "generated" /\ responses[j].kind = "generated") =>
                  \A a \in DOMAIN responses[i].solutions, b \in DOMAIN responses[j].solutions :
                      responses[i].solutions[a].id # responses[j].solutions[b].id)

====
